---- MODULE Spec2Model ----
(***************************************************************************)
(* The sales pipeline of the CRM and its write-through synchronisation     *)
(* layer: the contacts tables (the phase-1, phase-2 and phase-3 tables of  *)
(* the CRM page and the table that takes the phase as a property), their   *)
(* in-memory lists, the debounce timers of handleUpdate, the writes in     *)
(* flight to the record store, and the record store itself.                *)
(***************************************************************************)
EXTENDS Integers, Sequences, FiniteSets, TLC

(***************************************************************************)
(* Bounds of the model.                                                    *)
(***************************************************************************)
MaxCalls == 4
MaxTime == 1000
TickMs == 250
MaxFail == 1
MaxPipeInflight == 2
MaxGenCalls == 2
MaxNotesCalls == 3
MaxFailCalls == 3
MaxTrackCalls == 3
MaxBlankCalls == 3
MaxDupCalls == 2
MaxCaptureCalls == 2
MaxPhaseChanges == 3
MaxMoveCalls == 3
MaxCountCalls == 3
MaxAmountLen == 2
MaxAmountCalls == 2
MaxStampCalls == 3
MaxRowsCalls == 3

(***************************************************************************)
(* Stage vocabulary.                                                       *)
(***************************************************************************)
PHASE_1_STAGES == <<"Lead", "Approached", "Not Interested", "Demo Stage">>
PHASE_2_STAGES ==
  <<"Request Demo", "Demo Created", "Decision Pending", "Approved", "Undecided", "Rejected">>
PHASE_3_STAGES == <<"Negotiating", "Closed Won", "In Development", "Completed", "Closed Lost">>

Phases == {"lead", "presentation", "conversion"}

Range(s) == {s[i] : i \in DOMAIN s}

getSalesStagesForPhase(phase) ==
  CASE phase = "lead" -> PHASE_1_STAGES
    [] phase = "presentation" -> PHASE_2_STAGES
    [] phase = "conversion" -> PHASE_3_STAGES
    [] OTHER -> PHASE_1_STAGES

getPhaseNumber(p) ==
  CASE p = "lead" -> 1
    [] p = "presentation" -> 2
    [] p = "conversion" -> 3
    [] OTHER -> 1

getDefaultStageForPhase(p) ==
  CASE p = "lead" -> "Lead"
    [] p = "presentation" -> "Request Demo"
    [] p = "conversion" -> "Negotiating"
    [] OTHER -> "Lead"

NoTransition == [targetPhase |-> 0, newStage |-> "none"]

getPhaseTransition(salesStage) ==
  IF salesStage = "Demo Stage" THEN [targetPhase |-> 2, newStage |-> "Request Demo"]
  ELSE IF salesStage = "Approved" THEN [targetPhase |-> 3, newStage |-> "Negotiating"]
  ELSE NoTransition

isArchivedStage(salesStage) ==
  salesStage \in {"Not Interested", "Rejected", "Closed Lost", "Completed"}

\* The stage lists the three tables of the CRM page offer in their selects.
Phase1Options == <<"Lead", "Approached", "Demo Stage">>
phase2SalesStages ==
  <<"Request Demo", "Demo Created", "Decision Pending", "Demo Approved", "Undecided", "Rejected">>
PHASE3_SALES_STAGES == <<"Deposit Paid", "Fully Paid", "Complete">>

(***************************************************************************)
(* Text and values.  A text is a sequence of one-character strings; a      *)
(* nullable value is Null, a text (Txt) or a number (Num).                 *)
(***************************************************************************)
Digits == {"0", "1", "2", "3", "4", "5", "6", "7", "8", "9"}

Null == [isNull |-> TRUE]
Txt(s) == [isNull |-> FALSE, text |-> s]
Num(w, f) == [isNull |-> FALSE, whole |-> w, frac |-> f]

IsSpace(c) == c = " "

RECURSIVE TrimLeft(_)
TrimLeft(s) == IF s # <<>> /\ IsSpace(Head(s)) THEN TrimLeft(Tail(s)) ELSE s

RECURSIVE TrimRight(_)
TrimRight(s) ==
  IF s # <<>> /\ IsSpace(s[Len(s)]) THEN TrimRight(SubSeq(s, 1, Len(s) - 1)) ELSE s

\* String.prototype.trim
Trim(s) == TrimRight(TrimLeft(s))

\* value.trim() || null
TrimOrNull(s) == IF Trim(s) = <<>> THEN Null ELSE Txt(Trim(s))

\* String(value).replace(/[^\d.]/g, "")
IsNumericChar(c) == c \in Digits \cup {"."}
StripNonNumeric(s) == SelectSeq(s, IsNumericChar)

RECURSIVE LeadingDigits(_)
LeadingDigits(s) ==
  IF s # <<>> /\ Head(s) \in Digits THEN <<Head(s)>> \o LeadingDigits(Tail(s)) ELSE <<>>

DigitVal(c) ==
  CASE c = "0" -> 0 [] c = "1" -> 1 [] c = "2" -> 2 [] c = "3" -> 3 [] c = "4" -> 4
    [] c = "5" -> 5 [] c = "6" -> 6 [] c = "7" -> 7 [] c = "8" -> 8 [] c = "9" -> 9

RECURSIVE DigitsToNat(_)
DigitsToNat(s) ==
  IF s = <<>> THEN 0 ELSE 10 * DigitsToNat(SubSeq(s, 1, Len(s) - 1)) + DigitVal(s[Len(s)])

RECURSIVE StripTrailingZeros(_)
StripTrailingZeros(s) ==
  IF s # <<>> /\ s[Len(s)] = "0" THEN StripTrailingZeros(SubSeq(s, 1, Len(s) - 1)) ELSE s

\* parseFloat of a text of digits and dots; Null stands for NaN -> null.
ParseFloatOrNull(s) ==
  LET ip == LeadingDigits(s)
      rest == SubSeq(s, Len(ip) + 1, Len(s))
      fp == IF rest # <<>> /\ Head(rest) = "." THEN LeadingDigits(Tail(rest)) ELSE <<>>
  IN IF ip = <<>> /\ fp = <<>> THEN Null
     ELSE Num(DigitsToNat(ip), StripTrailingZeros(fp))

ParseAmount(s) == ParseFloatOrNull(StripNonNumeric(s))

(***************************************************************************)
(* State.                                                                  *)
(***************************************************************************)
Ids == {"c1", "c2"}
Tables == {"P1", "P2", "P3", "G"}
TextFields == {"notes"}
IdentityFields == {"business_name", "email"}
Fields == {"sales_stage", "notes", "value", "deposit", "business_name", "email", "contact_count"}
DebounceDelay == 500

Absent == [absent |-> TRUE]

\* the categoryId property of the tables of the page
CategoryId == "k1"

Contact(phase, stage, notes, value) ==
  [current_phase |-> phase, sales_stage |-> stage, notes |-> notes, value |-> value,
   demo_instructions |-> Null, assigned_to |-> Null, business_name |-> Txt(<<>>),
   email |-> Null, contact_count |-> 0, last_contacted_at |-> Null,
   category_id |-> CategoryId]

VARIABLES
  store,           \* the contacts table of the record store: id -> row or Absent
  contacts,        \* contacts[t]: the in-memory list of table t: id -> row or Absent
  mounted,         \* the tables on the page
  epoch,           \* epoch[t]: the instance of table t (a key change remounts it)
  phaseProp,       \* the phase property of table G
  pendingSaveRef,  \* pendingSaveRef[t]: <<id, field>> -> timer handle, 0 for no entry
  timers,          \* the scheduled timers that have neither fired nor been cleared
  inflight,        \* the store writes issued and not yet completed
  fetches,         \* the fetches issued and not yet delivered
  dialog,          \* dialog[t]: the capture dialog open in table t
  editing,         \* editing[t]: editingCell and editValue of table t
  draft,           \* the texts in the inputs of the capture dialogs
  now,             \* the clock, in ms
  nCalls,          \* the operations that reached the synchronisation layer so far
  nFail,           \* the store writes that failed so far
  callLog,         \* history: the handleUpdate calls, in call order
  issued,          \* history: the writes issued by handleUpdate, in issue order
  toasts,          \* history: the failure notifications raised so far
  ev               \* history: the handler that ran last

vars ==
  <<store, contacts, mounted, epoch, phaseProp, pendingSaveRef, timers, inflight, fetches,
    dialog, editing, draft, now, nCalls, nFail, callLog, issued, toasts, ev>>

Keys == Ids \X Fields

NoDialog == [kind |-> "none"]
NoEdit == [id |-> "none"]
DEVELOPERS == <<"DEVTORIO", "DEVRONA">>
NoDraft ==
  [reason |-> <<>>, instructions |-> <<>>, developer |-> DEVELOPERS[1], amount |-> <<>>,
   price |-> <<>>]

NoRows == [id \in Ids |-> Absent]
NoRefs == [k \in Keys |-> 0]

(***************************************************************************)
(* The record store.                                                       *)
(***************************************************************************)
\* the NOT NULL column a handler can put null in (the stage, the count and the
\* phase of a patch are never null)
NotNullColumns == {"business_name"}

\* the table takes the patch: it puts null in no NOT NULL column
Accepts(patch) == \A f \in DOMAIN patch : f \in NotNullColumns => patch[f] # Null

\* .update(patch).eq("id", id): the named columns of the row, when it exists
ApplyPatch(row, patch) ==
  IF row = Absent THEN row
  ELSE [f \in DOMAIN row |-> IF f \in DOMAIN patch THEN patch[f] ELSE row[f]]

StoreUpdate(id, patch) == [store EXCEPT ![id] = ApplyPatch(store[id], patch)]

\* an update without the trigger of the table
NotTriggered(patch) == patch

\* TRIGGER update_contacts_updated_at BEFORE UPDATE: NEW.updated_at = now(), whatever
\* updated_at the request carries (the column is kept where a row is given it)
Triggered(patch) == patch @@ ("updated_at" :> now)

\* the store after request w: .insert(row), .delete().eq("id", id), .update(patch).eq("id", id)
StoreAfter(w) ==
  CASE w.kind = "insert" -> [store EXCEPT ![w.id] = w.patch]
    [] w.kind = "delete" -> [store EXCEPT ![w.id] = Absent]
    [] OTHER -> StoreUpdate(w.id, Triggered(w.patch))

\* .select("*").eq("current_phase", p) with the table's filter on the stage
QueryPhase(p) ==
  [id \in Ids |-> IF store[id] # Absent /\ store[id].current_phase = p THEN store[id] ELSE Absent]

(***************************************************************************)
(* fetchContacts of the four tables.                                       *)
(***************************************************************************)
TablePhase(t) ==
  CASE t = "P1" -> 1 [] t = "P2" -> 2 [] t = "P3" -> 3 [] t = "G" -> getPhaseNumber(phaseProp)

\* what the table keeps of the rows the query returned
FetchFilter(t, row) ==
  CASE t = "P1" -> TRUE
    [] t = "P2" -> row.sales_stage # "Rejected"
    [] t = "P3" -> row.sales_stage # "Complete"
    [] t = "G" -> ~ isArchivedStage(row.sales_stage)

FetchResult(t, p) ==
  LET rows == QueryPhase(p)
  IN [id \in Ids |-> IF rows[id] # Absent /\ FetchFilter(t, rows[id]) THEN rows[id] ELSE Absent]

NewFetch(t, ep) == [t |-> t, ep |-> ep, p |-> TablePhase(t), answered |-> FALSE, data |-> NoRows]

\* the query reaches the store and reads it
FetchAnswer(f) ==
  /\ f \in fetches
  /\ ~ f.answered
  /\ fetches' = (fetches \ {f}) \cup {[f EXCEPT !.answered = TRUE, !.data = FetchResult(f.t, f.p)]}
  /\ ev' = "fetchAnswer"
  /\ UNCHANGED <<store, contacts, mounted, epoch, phaseProp, pendingSaveRef, timers, inflight,
                 dialog, editing, draft, now, nCalls, nFail, callLog, issued, toasts>>

\* the response arrives: setContacts(data) in the instance that asked, if still mounted
FetchDeliver(f) ==
  /\ f \in fetches
  /\ f.answered
  /\ fetches' = fetches \ {f}
  /\ contacts' = IF f.ep = epoch[f.t] THEN [contacts EXCEPT ![f.t] = f.data] ELSE contacts
  /\ ev' = "fetchDeliver"
  /\ UNCHANGED <<store, mounted, epoch, phaseProp, pendingSaveRef, timers, inflight,
                 dialog, editing, draft, now, nCalls, nFail, callLog, issued, toasts>>

(***************************************************************************)
(* handleUpdate: the write-through synchronisation layer of each table.    *)
(***************************************************************************)
\* the normalisation at the head of handleUpdate; a stage label is its own trim
Normalize(t, field, value) ==
  IF field = "contact_count" THEN value
  ELSE IF field = "value" \/ (t = "P3" /\ field = "deposit") THEN ParseAmount(value)
  ELSE IF field = "sales_stage" THEN value
  ELSE TrimOrNull(value)

\* isMovingToPhase2 / isRejected / isComplete: the changes that leave the list
LeavesList(t, field, value) ==
  /\ field = "sales_stage"
  /\ \/ t = "P1" /\ value = "Demo Stage"
     \/ t = "P2" /\ value = "Rejected"
     \/ t = "P3" /\ value = "Complete"

\* setContacts(prev => prev.map(c => c.id === id ? {...c, [field]: updateValue} : c))
MapField(rows, id, field, updateValue) ==
  [i \in Ids |-> IF i = id /\ rows[i] # Absent
                 THEN [rows[i] EXCEPT ![field] = updateValue] ELSE rows[i]]

\* setContacts(prev => prev.filter(c => c.id !== id))
FilterOut(rows, id) == [i \in Ids |-> IF i = id THEN Absent ELSE rows[i]]

\* a handleUpdate that leaves the list alone until the write has answered
NoOptimisticUpdate(t, rows, id, field, value) == rows

OptimisticUpdate(t, rows, id, field, value) ==
  IF LeavesList(t, field, value) THEN FilterOut(rows, id)
  ELSE MapField(rows, id, field, Normalize(t, field, value))

\* the payload of performSave
UpdateData(t, field, value) ==
  IF t = "P1" /\ LeavesList(t, field, value)
  THEN (field :> Normalize(t, field, value)) @@ ("current_phase" :> 2)
  ELSE (field :> Normalize(t, field, value))

\* if (pendingSaveRef.current[saveKey]) clearTimeout(pendingSaveRef.current[saveKey])
ClearPending(t, id, field) ==
  {tm \in timers : ~ (tm.n = pendingSaveRef[t][<<id, field>>] /\ pendingSaveRef[t][<<id, field>>] # 0)}

Write(n, t, kind, id, field, patch, leaves) ==
  [n |-> n, t |-> t, ep |-> epoch[t], kind |-> kind, id |-> id, field |-> field,
   patch |-> patch, leaves |-> leaves, snap |-> NoRows]

Timer(n, t, id, field, patch, leaves) ==
  [n |-> n, t |-> t, ep |-> epoch[t], id |-> id, field |-> field, patch |-> patch,
   leaves |-> leaves, due |-> now + DebounceDelay]

\* history: what is recorded of a call and of an issued write
LogCall(n, t, id, field, value, immediate) ==
  Append(callLog, [n |-> n, t |-> t, id |-> id, field |-> field,
                   value |-> Normalize(t, field, value), immediate |-> immediate, at |-> now,
                   seen |-> Len(issued)])

Issue(n, t, id, field, patch) ==
  [n |-> n, t |-> t, id |-> id, field |-> field, value |-> patch[field]]

handleUpdate(t, id, field, value, immediate) ==
  /\ t \in mounted
  /\ nCalls < MaxCalls
  /\ nCalls' = nCalls + 1
  /\ contacts' = [contacts EXCEPT ![t] = OptimisticUpdate(t, contacts[t], id, field, value)]
  /\ callLog' = LogCall(nCalls + 1, t, id, field, value, immediate)
  /\ IF immediate
     THEN /\ timers' = ClearPending(t, id, field)
          /\ inflight' = inflight \cup
               {Write(nCalls + 1, t, "update", id, field, UpdateData(t, field, value),
                      LeavesList(t, field, value))}
          /\ issued' = Append(issued, Issue(nCalls + 1, t, id, field, UpdateData(t, field, value)))
          /\ UNCHANGED pendingSaveRef
     ELSE /\ timers' = ClearPending(t, id, field) \cup
               {Timer(nCalls + 1, t, id, field, UpdateData(t, field, value),
                      LeavesList(t, field, value))}
          /\ pendingSaveRef' = [pendingSaveRef EXCEPT ![t][<<id, field>>] = nCalls + 1]
          /\ UNCHANGED <<inflight, issued>>
  /\ UNCHANGED <<store, mounted, epoch, phaseProp, fetches, draft, now, nFail, toasts>>

\* setTimeout(performSave, 500) comes due: performSave issues its write
\* (timers of equal delay run in the order they were set)
TimerFire(tm) ==
  /\ tm \in timers
  /\ tm.due <= now
  /\ \A o \in timers : o.due > tm.due \/ (o.due = tm.due /\ o.n >= tm.n)
  /\ timers' = timers \ {tm}
  /\ inflight' = inflight \cup
       {[n |-> tm.n, t |-> tm.t, ep |-> tm.ep, kind |-> "update", id |-> tm.id,
         field |-> tm.field, patch |-> tm.patch, leaves |-> tm.leaves, snap |-> NoRows]}
  /\ issued' = Append(issued, Issue(tm.n, tm.t, tm.id, tm.field, tm.patch))
  /\ ev' = "timer"
  /\ UNCHANGED <<store, contacts, mounted, epoch, phaseProp, pendingSaveRef, fetches, dialog,
                 editing, draft, now, nCalls, nFail, callLog, toasts>>

\* time passes; a timer that is due fires before the clock moves on
Tick ==
  /\ now + TickMs <= MaxTime
  /\ \A tm \in timers : tm.due > now
  /\ now' = now + TickMs
  /\ ev' = "tick"
  /\ UNCHANGED <<store, contacts, mounted, epoch, phaseProp, pendingSaveRef, timers, inflight,
                 fetches, dialog, editing, draft, nCalls, nFail, callLog, issued, toasts>>

(***************************************************************************)
(* The page: a key change remounts a table, which starts empty and fetches.*)
(***************************************************************************)
Remounted(ts) == {t \in ts : t \in mounted}

Remount(f, ts, empty) == [t \in Tables |-> IF t \in Remounted(ts) THEN empty ELSE f[t]]
RemountEpoch(ts) == [t \in Tables |-> IF t \in Remounted(ts) THEN epoch[t] + 1 ELSE epoch[t]]
RemountFetches(ts) ==
  {[t |-> t, ep |-> epoch[t] + 1, p |-> TablePhase(t), answered |-> FALSE, data |-> NoRows] :
     t \in Remounted(ts)}

(***************************************************************************)
(* The completion of a write: the store applies the patch or refuses it,   *)
(* and the handler that awaited it runs on.                                *)
(***************************************************************************)
\* delete pendingSaveRef.current[saveKey], in the instance that issued the write
DeletePending(refs, w) ==
  IF w.kind = "update" /\ w.ep = epoch[w.t]
  THEN [refs EXCEPT ![w.t][<<w.id, w.field>>] = 0] ELSE refs

\* the tables the success of write w remounts: onContactMovedToPhase2 / onContactMovedToPhase3
RefreshOnSuccess(w) ==
  IF w.kind = "update" /\ w.t = "P1" /\ w.leaves THEN {"P2"}
  ELSE IF w.kind = "approve" THEN {"P3"}
  ELSE {}

\* the list of the issuing table after the write succeeded
ContactsOnSuccess(w) ==
  CASE w.kind = "update" -> contacts[w.t]
    [] w.kind \in {"transition", "reject"} -> FilterOut(contacts[w.t], w.id)
    [] w.kind = "approve" -> FilterOut(w.snap, w.id)
    [] w.kind \in {"demo", "payment"} ->
         [i \in Ids |-> IF i = w.id THEN ApplyPatch(contacts[w.t][i], w.patch)
                        ELSE contacts[w.t][i]]
    [] w.kind \in {"track", "setLast"} ->
         [i \in Ids |-> IF i = w.id THEN ApplyPatch(w.snap[i], w.patch) ELSE w.snap[i]]
    [] w.kind = "insert" -> [i \in Ids |-> IF i = w.id THEN w.patch ELSE w.snap[i]]
    [] w.kind = "delete" -> FilterOut(w.snap, w.id)

\* the fetch the failure of write w starts: fetchContacts() in the error branch
RefetchOnFailure(w) ==
  IF w.kind = "update" /\ w.leaves THEN {NewFetch(w.t, w.ep)} ELSE {}

\* the dialog state the handler sets after its await, whatever the outcome:
\* setDemoRequestContact(null), setRejectionContact(null), setPaymentContact(null),
\* setApprovedDialog({open: false, contact: null})
DialogKindOf(kind) ==
  CASE kind = "demo" -> "demo"
    [] kind = "reject" -> "rejection"
    [] kind = "payment" -> "payment"
    [] kind = "approve" -> "approved"
    [] OTHER -> "no dialog"

\* a handler that leaves its dialog as it is after the await
DialogStays(w) == dialog

DialogAfter(w) ==
  IF w.ep = epoch[w.t] /\ dialog[w.t] # NoDialog /\ dialog[w.t].kind = DialogKindOf(w.kind)
  THEN [dialog EXCEPT ![w.t] = NoDialog] ELSE dialog

\* setNegotiationPrice("") after the await of handleSaveNegotiationPrice
DraftAfter(w) ==
  IF w.kind = "approve" /\ w.ep = epoch[w.t] THEN [draft EXCEPT !.price = <<>>] ELSE draft

\* editingCell, editValue and newRowId of a row just added
NewRowEdit(id) == [id |-> id, field |-> "business_name", value |-> <<>>, newRow |-> TRUE]

\* setNewRowId(data.id); startEditing(data.id, "business_name", "") after the insert
EditingAfter(w) ==
  IF w.kind = "insert" /\ w.ep = epoch[w.t] THEN [editing EXCEPT ![w.t] = NewRowEdit(w.id)]
  ELSE editing

\* an error branch that reports the failure twice
FailureToastsTwice(w) == 2

\* the notifications the failure of request w raises: toast.error in the error branch
FailureToasts(w) == IF w.kind \in {"track", "setLast"} THEN 0 ELSE 1

WriteSucceeds(w) ==
  /\ w \in inflight
  /\ Accepts(w.patch)
  /\ inflight' = inflight \ {w}
  /\ store' = StoreAfter(w)
  /\ contacts' =
       Remount(IF w.ep = epoch[w.t] THEN [contacts EXCEPT ![w.t] = ContactsOnSuccess(w)]
               ELSE contacts,
               RefreshOnSuccess(w), NoRows)
  /\ epoch' = RemountEpoch(RefreshOnSuccess(w))
  /\ pendingSaveRef' = Remount(DeletePending(pendingSaveRef, w), RefreshOnSuccess(w), NoRefs)
  /\ dialog' = Remount(DialogAfter(w), RefreshOnSuccess(w), NoDialog)
  /\ editing' = Remount(EditingAfter(w), RefreshOnSuccess(w), NoEdit)
  /\ draft' = DraftAfter(w)
  /\ fetches' = fetches \cup RemountFetches(RefreshOnSuccess(w))
  /\ ev' = "writeOk"
  /\ UNCHANGED <<mounted, phaseProp, timers, now, nCalls, nFail, callLog, issued, toasts>>

\* a performSave whose error branch puts the stored value back in the list
WriteFailsReverting(w) ==
  /\ w \in inflight
  /\ nFail < MaxFail \/ ~ Accepts(w.patch)
  /\ nFail' = nFail + 1
  /\ inflight' = inflight \ {w}
  /\ toasts' = toasts + 1
  /\ contacts' = [contacts EXCEPT ![w.t] = MapField(contacts[w.t], w.id, w.field, store[w.id][w.field])]
  /\ fetches' = fetches \cup RefetchOnFailure(w)
  /\ pendingSaveRef' = DeletePending(pendingSaveRef, w)
  /\ dialog' = DialogAfter(w)
  /\ draft' = DraftAfter(w)
  /\ ev' = "writeFailed"
  /\ UNCHANGED <<store, mounted, epoch, phaseProp, timers, editing, now,
                 nCalls, callLog, issued>>

WriteFails(w) ==
  /\ w \in inflight
  /\ nFail < MaxFail \/ ~ Accepts(w.patch)
  /\ nFail' = nFail + 1
  /\ inflight' = inflight \ {w}
  /\ toasts' = toasts + FailureToasts(w)
  /\ fetches' = fetches \cup RefetchOnFailure(w)
  /\ pendingSaveRef' = DeletePending(pendingSaveRef, w)
  /\ dialog' = DialogAfter(w)
  /\ draft' = DraftAfter(w)
  /\ ev' = "writeFailed"
  /\ UNCHANGED <<store, contacts, mounted, epoch, phaseProp, timers, editing, now,
                 nCalls, callLog, issued>>

(***************************************************************************)
(* Editing a cell.                                                         *)
(***************************************************************************)
\* the texts the operator types
Typed == {<<"a">>, <<"a", "b">>, <<" ">>}

InList(t, id) == contacts[t][id] # Absent

\* currentValue || ""
TextOf(v) == IF v = Null THEN <<>> ELSE v.text

\* startEditing(id, field, currentValue) on a click in a cell of the list
StartEditing(t, id, field) ==
  /\ t \in mounted
  /\ dialog[t] = NoDialog
  /\ editing[t] = NoEdit
  /\ InList(t, id)
  /\ field \in TextFields \cup IdentityFields
  /\ editing' = [editing EXCEPT ![t] = [id |-> id, field |-> field, value |-> TextOf(contacts[t][id][field])]]
  /\ ev' = "startEditing"
  /\ UNCHANGED <<store, contacts, mounted, epoch, phaseProp, pendingSaveRef, timers, inflight,
                 fetches, dialog, draft, now, nCalls, nFail, callLog, issued, toasts>>

\* handleInputChange: setEditValue(value); handleUpdate(id, field, value, false)
InputChange(t, text) ==
  /\ editing[t] # NoEdit
  /\ text # editing[t].value
  /\ handleUpdate(t, editing[t].id, editing[t].field, text, FALSE)
  /\ editing' = [editing EXCEPT ![t].value = text]
  /\ ev' = "inputChange"
  /\ UNCHANGED dialog

\* !contact.business_name, !contact.email: null or the empty string
Falsy(v) == IF v = Null THEN TRUE ELSE v.text = <<>>

\* handleBlur of the phase-prop table: newRowId === id && !editValue.trim() &&
\* field === "business_name", and the row has no name and no email
DeletesNewRow(t) ==
  /\ t = "G"
  /\ editing[t] # NoEdit
  /\ "newRow" \in DOMAIN editing[t]
  /\ editing[t].field = "business_name"
  /\ Trim(editing[t].value) = <<>>
  /\ InList(t, editing[t].id)
  /\ Falsy(contacts[t][editing[t].id].business_name)
  /\ Falsy(contacts[t][editing[t].id].email)

\* handleBlur: handleUpdate(id, field, editValue, true); setEditingCell(null)
Blur(t) ==
  /\ editing[t] # NoEdit
  /\ ~ DeletesNewRow(t)
  /\ handleUpdate(t, editing[t].id, editing[t].field, editing[t].value, TRUE)
  /\ editing' = [editing EXCEPT ![t] = NoEdit]
  /\ ev' = "blur"
  /\ UNCHANGED dialog

\* handleKeyDown, Enter: handleUpdate(id, field, editValue, true); setEditingCell(null)
KeyEnter(t) ==
  /\ editing[t] # NoEdit
  /\ handleUpdate(t, editing[t].id, editing[t].field, editing[t].value, TRUE)
  /\ editing' = [editing EXCEPT ![t] = NoEdit]
  /\ ev' = "enter"
  /\ UNCHANGED dialog

\* handleKeyDown, Escape: setEditingCell(null)
KeyEscape(t) ==
  /\ editing[t] # NoEdit
  /\ editing' = [editing EXCEPT ![t] = NoEdit]
  /\ ev' = "escape"
  /\ UNCHANGED <<store, contacts, mounted, epoch, phaseProp, pendingSaveRef, timers, inflight,
                 fetches, dialog, draft, now, nCalls, nFail, callLog, issued, toasts>>

(***************************************************************************)
(* Contact activity: the call and email buttons of a row.                  *)
(***************************************************************************)
\* new Date().toISOString() at time n
Stamp(n) == [isNull |-> FALSE, at |-> n]

\* the payload of trackContact: the count of the row as the handler sees it, plus one
TrackPatch(row) == [last_contacted_at |-> Stamp(now), contact_count |-> row.contact_count + 1]

\* handlePhoneCall / openGmailCompose: trackContact(contactId), up to its await
TrackContact(t, id) ==
  /\ t \in mounted
  /\ InList(t, id)
  /\ nCalls < MaxCalls
  /\ nCalls' = nCalls + 1
  /\ inflight' = inflight \cup
       {[n |-> nCalls + 1, t |-> t, ep |-> epoch[t], kind |-> "track", id |-> id,
         field |-> "contact_count", patch |-> TrackPatch(contacts[t][id]), leaves |-> FALSE,
         snap |-> contacts[t]]}
  /\ callLog' = Append(callLog, [n |-> nCalls + 1, t |-> t, id |-> id, field |-> "contact_count",
                                 value |-> contacts[t][id].contact_count + 1, immediate |-> TRUE,
                                 at |-> now, seen |-> Len(issued)])
  /\ ev' = "track"
  /\ UNCHANGED <<store, contacts, mounted, epoch, phaseProp, pendingSaveRef, timers, fetches,
                 dialog, editing, draft, now, nFail, issued, toasts>>

\* handleIncrementAttempts(contactId): the count of the row the handler sees, plus one
handleIncrementAttempts(t, id) ==
  /\ t \in {"G", "P1", "P2"}
  /\ InList(t, id)
  /\ handleUpdate(t, id, "contact_count", contacts[t][id].contact_count + 1, TRUE)
  /\ ev' = "increment"
  /\ UNCHANGED <<dialog, editing>>

(***************************************************************************)
(* Rows: adding one, deleting one, setting the last update.                *)
(***************************************************************************)
\* a request that is not a write of handleUpdate, with the list its handler closed over
Request(n, t, kind, id, patch) ==
  [n |-> n, t |-> t, ep |-> epoch[t], kind |-> kind, id |-> id, field |-> "id",
   patch |-> patch, leaves |-> FALSE, snap |-> contacts[t]]

\* the row handleAddNew inserts, as the store returns it
NewRow(t) ==
  IF t = "G" THEN Contact(getPhaseNumber(phaseProp), getDefaultStageForPhase(phaseProp), Null, Null)
  ELSE Contact(1, "Lead", Null, Null)

\* an id the store can give to a new row: nothing holds it
FreshId(id) ==
  /\ store[id] = Absent
  /\ \A t \in Tables : contacts[t][id] = Absent
  /\ \A w \in inflight : w.id # id /\ w.snap[id] = Absent
  /\ \A tm \in timers : tm.id # id
  /\ \A f \in fetches : f.data[id] = Absent

\* the buttons of a table answer when no dialog is open and no cell is being edited
Idle(t) == t \in mounted /\ dialog[t] = NoDialog /\ editing[t] = NoEdit

\* handleAddNew, up to its await
handleAddNew(t) ==
  /\ t \in {"G", "P1"}
  /\ Idle(t)
  /\ nCalls < MaxCalls
  /\ nCalls' = nCalls + 1
  /\ \E id \in Ids :
       /\ FreshId(id)
       /\ inflight' = inflight \cup {Request(nCalls + 1, t, "insert", id, NewRow(t))}
  /\ ev' = "addNew"
  /\ UNCHANGED <<store, contacts, mounted, epoch, phaseProp, pendingSaveRef, timers, fetches,
                 dialog, editing, draft, now, nFail, callLog, issued, toasts>>

\* handleDelete(id), up to its await
handleDelete(t, id) ==
  /\ Idle(t)
  /\ InList(t, id)
  /\ nCalls < MaxCalls
  /\ nCalls' = nCalls + 1
  /\ inflight' = inflight \cup {Request(nCalls + 1, t, "delete", id, [deleted |-> TRUE])}
  /\ ev' = "delete"
  /\ UNCHANGED <<store, contacts, mounted, epoch, phaseProp, pendingSaveRef, timers, fetches,
                 dialog, editing, draft, now, nFail, callLog, issued, toasts>>

\* handleSetLastUpdate(contactId), up to its await
handleSetLastUpdate(t, id) ==
  /\ t \in {"G", "P1", "P2"}
  /\ Idle(t)
  /\ InList(t, id)
  /\ nCalls < MaxCalls
  /\ nCalls' = nCalls + 1
  /\ inflight' = inflight \cup
       {Request(nCalls + 1, t, "setLast", id, [last_contacted_at |-> Stamp(now)])}
  /\ ev' = "setLast"
  /\ UNCHANGED <<store, contacts, mounted, epoch, phaseProp, pendingSaveRef, timers, fetches,
                 dialog, editing, draft, now, nFail, callLog, issued, toasts>>

\* handleBlur on the empty name of the row just added: handleUpdate(id, field,
\* editValue, true), then handleDelete(id) with the list of the render
BlurNewRow(t) ==
  /\ DeletesNewRow(t)
  /\ nCalls + 1 < MaxCalls
  /\ nCalls' = nCalls + 2
  /\ contacts' = [contacts EXCEPT ![t] =
                    OptimisticUpdate(t, contacts[t], editing[t].id, editing[t].field, editing[t].value)]
  /\ callLog' = LogCall(nCalls + 1, t, editing[t].id, editing[t].field, editing[t].value, TRUE)
  /\ timers' = ClearPending(t, editing[t].id, editing[t].field)
  /\ inflight' = inflight \cup
       {Write(nCalls + 1, t, "update", editing[t].id, editing[t].field,
              UpdateData(t, editing[t].field, editing[t].value), FALSE),
        Request(nCalls + 2, t, "delete", editing[t].id, [deleted |-> TRUE])}
  /\ issued' = Append(issued, Issue(nCalls + 1, t, editing[t].id, editing[t].field,
                                    UpdateData(t, editing[t].field, editing[t].value)))
  /\ editing' = [editing EXCEPT ![t] = NoEdit]
  /\ ev' = "blur"
  /\ UNCHANGED <<store, mounted, epoch, phaseProp, pendingSaveRef, fetches, dialog, draft,
                 now, nFail, toasts>>

(***************************************************************************)
(* Duplicate detection.                                                    *)
(***************************************************************************)
\* String.prototype.toLowerCase on the letters the texts are made of
LowerChar(c) == CASE c = "A" -> "a" [] c = "B" -> "b" [] OTHER -> c
ToLowerCase(s) == [i \in DOMAIN s |-> LowerChar(s[i])]

\* value.trim().toLowerCase()
NormalizedText(s) == ToLowerCase(Trim(s))

\* fieldValue && typeof fieldValue === "string"
Truthy(v) == v # Null /\ v.text # <<>>

\* a findDuplicates that compares the field of the other row as it is
findDuplicatesRaw(t, field, contactId, value) ==
  IF ~ Truthy(value) \/ Trim(value.text) = <<>> THEN {}
  ELSE {c \in Ids : /\ contacts[t][c] # Absent
                    /\ c # contactId
                    /\ Truthy(contacts[t][c][field])
                    /\ contacts[t][c][field].text = NormalizedText(value.text)}

\* a findDuplicates without the test c.id !== contactId
findDuplicatesSelf(t, field, contactId, value) ==
  IF ~ Truthy(value) \/ Trim(value.text) = <<>> THEN {}
  ELSE {c \in Ids : /\ contacts[t][c] # Absent
                    /\ Truthy(contacts[t][c][field])
                    /\ NormalizedText(contacts[t][c][field].text) = NormalizedText(value.text)}

\* findDuplicates(field, contactId, value): the rows of the list it returns
findDuplicates(t, field, contactId, value) ==
  IF ~ Truthy(value) \/ Trim(value.text) = <<>> THEN {}
  ELSE {c \in Ids : /\ contacts[t][c] # Absent
                    /\ c # contactId
                    /\ Truthy(contacts[t][c][field])
                    /\ NormalizedText(contacts[t][c][field].text) = NormalizedText(value.text)}

(***************************************************************************)
(* The stage selects of the three tables of the CRM page.                  *)
(***************************************************************************)
\* a select of a row of the list reports a value other than the one it shows
CanSelect(t, id, stage) ==
  /\ t \in mounted
  /\ dialog[t] = NoDialog
  /\ editing[t] = NoEdit
  /\ InList(t, id)
  /\ stage # contacts[t][id].sales_stage

\* phase-1 table: onValueChange = handleUpdate(contact.id, "sales_stage", value, true)
SelectStageP1(id, stage) ==
  /\ CanSelect("P1", id, stage)
  /\ stage \in Range(Phase1Options)
  /\ handleUpdate("P1", id, "sales_stage", stage, TRUE)
  /\ ev' = "select"
  /\ UNCHANGED <<dialog, editing>>

\* phase-3 table: onValueChange = handleUpdate(contact.id, "sales_stage", value, true)
SelectStageP3(id, stage) ==
  /\ CanSelect("P3", id, stage)
  /\ stage \in Range(PHASE3_SALES_STAGES)
  /\ handleUpdate("P3", id, "sales_stage", stage, TRUE)
  /\ ev' = "select"
  /\ UNCHANGED <<dialog, editing>>

RECURSIVE NatToDigits(_)
NatToDigits(n) ==
  IF n < 10 THEN <<CHOOSE c \in Digits : DigitVal(c) = n>>
  ELSE NatToDigits(n \div 10) \o <<CHOOSE c \in Digits : DigitVal(c) = n % 10>>

\* contact.value?.toString() || ""
NumberText(v) ==
  IF v = Null THEN <<>>
  ELSE IF v.frac = <<>> THEN NatToDigits(v.whole)
  ELSE NatToDigits(v.whole) \o <<".">> \o v.frac

\* phase-2 table: handleSalesStageChange(contact.id, value)
SelectStageP2(id, stage) ==
  /\ CanSelect("P2", id, stage)
  /\ stage \in Range(phase2SalesStages)
  /\ IF stage = "Demo Approved"
     THEN /\ draft' = [draft EXCEPT !.price = NumberText(contacts["P2"][id].value)]
          /\ dialog' = [dialog EXCEPT !["P2"] =
                          [kind |-> "approved", id |-> id, row |-> contacts["P2"][id]]]
          /\ UNCHANGED <<store, contacts, mounted, epoch, phaseProp, pendingSaveRef, timers,
                         inflight, fetches, now, nCalls, nFail, callLog, issued, toasts>>
     ELSE /\ handleUpdate("P2", id, "sales_stage", stage, TRUE)
          /\ UNCHANGED dialog
  /\ ev' = "select"
  /\ UNCHANGED editing

\* the prices the operator types
TypedPrices == {<<"5">>}

\* the price input of the Approved dialog: setNegotiationPrice(e.target.value)
TypePrice(text) ==
  /\ dialog["P2"] # NoDialog
  /\ text # draft.price
  /\ draft' = [draft EXCEPT !.price = text]
  /\ ev' = "typePrice"
  /\ UNCHANGED <<store, contacts, mounted, epoch, phaseProp, pendingSaveRef, timers, inflight,
                 fetches, dialog, editing, now, nCalls, nFail, callLog, issued, toasts>>

\* Cancel, or closing the Approved dialog
CancelApproved ==
  /\ dialog["P2"] # NoDialog
  /\ dialog' = [dialog EXCEPT !["P2"] = NoDialog]
  /\ draft' = [draft EXCEPT !.price = <<>>]
  /\ ev' = "cancel"
  /\ UNCHANGED <<store, contacts, mounted, epoch, phaseProp, pendingSaveRef, timers, inflight,
                 fetches, editing, now, nCalls, nFail, callLog, issued, toasts>>

ApprovePatch(price) ==
  [sales_stage |-> "Demo Approved", value |-> ParseAmount(price), current_phase |-> 3]

\* handleSaveNegotiationPrice, up to its await
SaveNegotiationPrice ==
  /\ dialog["P2"] # NoDialog
  /\ nCalls < MaxCalls
  /\ nCalls' = nCalls + 1
  /\ inflight' = inflight \cup
       {[n |-> nCalls + 1, t |-> "P2", ep |-> epoch["P2"], kind |-> "approve",
         id |-> dialog["P2"].id, field |-> "sales_stage", patch |-> ApprovePatch(draft.price),
         leaves |-> FALSE, snap |-> contacts["P2"]]}
  /\ ev' = "save"
  /\ UNCHANGED <<store, contacts, mounted, epoch, phaseProp, pendingSaveRef, timers, fetches,
                 dialog, editing, draft, now, nFail, callLog, issued, toasts>>

(***************************************************************************)
(* The table that takes the phase as a property: handleSalesStageChange    *)
(* and the three capture dialogs.                                          *)
(***************************************************************************)
OpenDialog(kind, id) == [kind |-> kind, id |-> id, row |-> contacts["G"][id]]

\* the capture dialog a requested stage opens in the phase of the table
GatedDialog(stage) ==
  CASE stage = "Request Demo" /\ phaseProp = "presentation" -> "demo"
    [] stage = "Rejected" /\ phaseProp = "presentation" -> "rejection"
    [] stage = "Closed Won" /\ phaseProp = "conversion" -> "payment"
    [] OTHER -> "none"

TransitionPatch(tr) == [sales_stage |-> tr.newStage, current_phase |-> tr.targetPhase]

\* handleSalesStageChange(contact, newStage), up to its first await
SelectStageG(id, stage) ==
  /\ CanSelect("G", id, stage)
  /\ stage \in Range(getSalesStagesForPhase(phaseProp))
  /\ ev' = "select"
  /\ UNCHANGED editing
  /\ IF GatedDialog(stage) # "none"
     THEN /\ dialog' = [dialog EXCEPT !["G"] = OpenDialog(GatedDialog(stage), id)]
          /\ UNCHANGED <<store, contacts, mounted, epoch, phaseProp, pendingSaveRef, timers,
                         inflight, fetches, draft, now, nCalls, nFail, callLog, issued, toasts>>
     ELSE IF getPhaseTransition(stage) # NoTransition
     THEN /\ nCalls < MaxCalls
          /\ nCalls' = nCalls + 1
          /\ inflight' = inflight \cup
               {Write(nCalls + 1, "G", "transition", id, "sales_stage",
                      TransitionPatch(getPhaseTransition(stage)), TRUE)}
          /\ UNCHANGED <<store, contacts, mounted, epoch, phaseProp, pendingSaveRef, timers,
                         fetches, dialog, draft, now, nFail, callLog, issued, toasts>>
     ELSE /\ handleUpdate("G", id, "sales_stage", stage, TRUE)
          /\ UNCHANGED dialog

\* the texts the operator types into the dialogs
TypedReasons == {<<"r">>}
TypedInstructions == {<<"i">>}
TypedAmounts == {<<"5">>, <<"0">>, <<"a">>}

DraftOf(kind) ==
  CASE kind = "demo" -> "instructions"
    [] kind = "rejection" -> "reason"
    [] kind = "payment" -> "amount"

DraftTexts(kind) ==
  CASE kind = "demo" -> TypedInstructions
    [] kind = "rejection" -> TypedReasons
    [] kind = "payment" -> TypedAmounts

\* the text input of the open dialog: setInstructions / setReason / setAmount
TypeDraft(text) ==
  /\ dialog["G"] # NoDialog
  /\ text \in DraftTexts(dialog["G"].kind)
  /\ text # draft[DraftOf(dialog["G"].kind)]
  /\ draft' = [draft EXCEPT ![DraftOf(dialog["G"].kind)] = text]
  /\ ev' = "typeDraft"
  /\ UNCHANGED <<store, contacts, mounted, epoch, phaseProp, pendingSaveRef, timers, inflight,
                 fetches, dialog, editing, now, nCalls, nFail, callLog, issued, toasts>>

\* the developer select of the demo request dialog: setSelectedDeveloper
ChooseDeveloper(dev) ==
  /\ dialog["G"] # NoDialog
  /\ dialog["G"].kind = "demo"
  /\ dev # draft.developer
  /\ draft' = [draft EXCEPT !.developer = dev]
  /\ ev' = "chooseDeveloper"
  /\ UNCHANGED <<store, contacts, mounted, epoch, phaseProp, pendingSaveRef, timers, inflight,
                 fetches, dialog, editing, now, nCalls, nFail, callLog, issued, toasts>>

\* a cancel that commits the stage the dialog was opened for
CancelDialogCommitting ==
  /\ dialog["G"] # NoDialog
  /\ nCalls < MaxCalls
  /\ nCalls' = nCalls + 1
  /\ inflight' = inflight \cup
       {Write(nCalls + 1, "G", "update", dialog["G"].id, "sales_stage",
              [sales_stage |-> IF dialog["G"].kind = "demo" THEN "Request Demo"
                               ELSE IF dialog["G"].kind = "rejection" THEN "Rejected"
                               ELSE "Closed Won"], FALSE)}
  /\ dialog' = [dialog EXCEPT !["G"] = NoDialog]
  /\ ev' = "cancel"
  /\ UNCHANGED <<store, contacts, mounted, epoch, phaseProp, pendingSaveRef, timers, fetches,
                 editing, draft, now, nFail, callLog, issued, toasts>>

\* Cancel, or closing the dialog: onClose
CancelDialog ==
  /\ dialog["G"] # NoDialog
  /\ dialog' = [dialog EXCEPT !["G"] = NoDialog]
  /\ ev' = "cancel"
  /\ UNCHANGED <<store, contacts, mounted, epoch, phaseProp, pendingSaveRef, timers, inflight,
                 fetches, editing, draft, now, nCalls, nFail, callLog, issued, toasts>>

\* existingNotes ? `${existingNotes}\n\n${tag}${text}` : `${tag}${text}`
AppendNote(notes, tag, text) ==
  IF TextOf(notes) = <<>> THEN Txt(<<tag>> \o text)
  ELSE Txt(TextOf(notes) \o <<"\n", "\n", tag>> \o text)

RECURSIVE Grouped(_)
Grouped(n) ==
  IF n < 1000 THEN NatToDigits(n)
  ELSE Grouped(n \div 1000) \o <<",">>
         \o SubSeq(NatToDigits(1000 + (n % 1000)), 2, 4)

\* amount.toLocaleString(), for amounts of at most three decimals
LocaleText(v) ==
  IF v.frac = <<>> THEN Grouped(v.whole) ELSE Grouped(v.whole) \o <<".">> \o v.frac

DemoPatch ==
  [sales_stage |-> "Request Demo", demo_instructions |-> Txt(draft.instructions),
   assigned_to |-> Txt(<<draft.developer>>)]

RejectionPatch(row) ==
  [sales_stage |-> "Rejected", notes |-> AppendNote(row.notes, "[REJECTION REASON]: ", draft.reason)]

\* the peso sign of the tag is written P
\* a payment save that writes the block in place of the notes
PaymentPatchOverwriting(row, amount) ==
  [sales_stage |-> "Closed Won", value |-> amount,
   notes |-> Txt(<<"[PAYMENT RECEIVED]: P">> \o LocaleText(amount))]

PaymentPatch(row, amount) ==
  [sales_stage |-> "Closed Won", value |-> amount,
   notes |-> AppendNote(row.notes, "[PAYMENT RECEIVED]: P", LocaleText(amount))]

\* !isNaN(numAmount) && numAmount > 0
\* a dialog that takes any number, zero too
ValidAmountOrZero(v) == v # Null

ValidAmount(v) == v # Null /\ (v.whole > 0 \/ v.frac # <<>>)

SavePatch(d) ==
  CASE d.kind = "demo" -> DemoPatch
    [] d.kind = "rejection" -> RejectionPatch(d.row)
    [] d.kind = "payment" -> PaymentPatch(d.row, ParseAmount(draft.amount))

WriteKindOf(kind) ==
  CASE kind = "demo" -> "demo"
    [] kind = "rejection" -> "reject"
    [] kind = "payment" -> "payment"

\* what handleSave of the dialog leaves in its inputs
DraftOnSave(kind) ==
  CASE kind = "demo" -> draft
    [] kind = "rejection" -> [draft EXCEPT !.reason = <<>>]
    [] kind = "payment" -> [draft EXCEPT !.amount = <<>>]

\* handleSave of the open dialog: onSave(...) up to its await, then onClose();
\* the payment dialog does nothing on an amount that is not a positive number
SaveDialog ==
  /\ dialog["G"] # NoDialog
  /\ IF dialog["G"].kind = "payment" /\ ~ ValidAmount(ParseAmount(draft.amount))
     THEN /\ ev' = "saveRefused"
          /\ UNCHANGED <<store, contacts, mounted, epoch, phaseProp, pendingSaveRef, timers,
                         inflight, fetches, dialog, editing, draft, now, nCalls, nFail, callLog,
                         issued, toasts>>
     ELSE /\ nCalls < MaxCalls
          /\ nCalls' = nCalls + 1
          /\ inflight' = inflight \cup
               {Write(nCalls + 1, "G", WriteKindOf(dialog["G"].kind), dialog["G"].id,
                      "sales_stage", SavePatch(dialog["G"]), FALSE)}
          /\ dialog' = [dialog EXCEPT !["G"] = NoDialog]
          /\ draft' = DraftOnSave(dialog["G"].kind)
          /\ ev' = "save"
          /\ UNCHANGED <<store, contacts, mounted, epoch, phaseProp, pendingSaveRef, timers,
                         fetches, editing, now, nFail, callLog, issued, toasts>>

(***************************************************************************)
(* The synchronisation layer alone: one table, one contact, one text cell. *)
(***************************************************************************)
InitCommon ==
  /\ epoch = [t \in Tables |-> 0]
  /\ pendingSaveRef = [t \in Tables |-> NoRefs]
  /\ timers = {}
  /\ inflight = {}
  /\ dialog = [t \in Tables |-> NoDialog]
  /\ editing = [t \in Tables |-> NoEdit]
  /\ draft = NoDraft
  /\ now = 0
  /\ nCalls = 0
  /\ nFail = 0
  /\ callLog = <<>>
  /\ issued = <<>>
  /\ toasts = 0
  /\ ev = "init"

InitSync ==
  /\ InitCommon
  /\ mounted = {"G"}
  /\ phaseProp = "lead"
  /\ store = [id \in Ids |-> IF id = "c1" THEN Contact(1, "Lead", Null, Null) ELSE Absent]
  /\ contacts = [t \in Tables |-> IF t = "G" THEN store ELSE NoRows]
  /\ fetches = {}

NextSync ==
  \/ \E id \in Ids, f \in TextFields : StartEditing("G", id, f)
  \/ \E text \in Typed : InputChange("G", text)
  \/ Blur("G")
  \/ KeyEnter("G")
  \/ KeyEscape("G")
  \/ \E tm \in timers : TimerFire(tm)
  \/ Tick
  \/ \E w \in inflight : WriteSucceeds(w)

SpecSync == InitSync /\ [][NextSync]_vars

(***************************************************************************)
(* The same, with the store answering the writes in the order they were    *)
(* issued.                                                                 *)
(***************************************************************************)
Oldest(w) == \A o \in inflight : o.n >= w.n

NextSyncFifo ==
  \/ \E id \in Ids, f \in TextFields : StartEditing("G", id, f)
  \/ \E text \in Typed : InputChange("G", text)
  \/ Blur("G")
  \/ KeyEnter("G")
  \/ KeyEscape("G")
  \/ \E tm \in timers : TimerFire(tm)
  \/ Tick
  \/ \E w \in inflight : Oldest(w) /\ WriteSucceeds(w)

SpecSyncFifo == InitSync /\ [][NextSyncFifo]_vars

(***************************************************************************)
(* The CRM page: the phase-1, phase-2 and phase-3 tables side by side,     *)
(* their lists as first fetched.                                           *)
(***************************************************************************)
InitPipe ==
  /\ InitCommon
  /\ mounted = {"P1", "P2", "P3"}
  /\ phaseProp = "lead"
  /\ \E c \in {Contact(1, "Lead", Null, Null), Contact(2, "Request Demo", Null, Null)} :
       store = [id \in Ids |-> IF id = "c1" THEN Contact(1, "Lead", Null, Null) ELSE c]
  /\ contacts = [t \in Tables |-> IF t \in mounted THEN FetchResult(t, TablePhase(t)) ELSE NoRows]
  /\ fetches = {}

\* the stages the operator picks in the selects, and the writes the network carries at once
PickedP1 == {"Approached", "Demo Stage"}
PickedP2 == {"Demo Created", "Demo Approved", "Rejected"}
PickedP3 == {"Fully Paid", "Complete"}
PipeRoom == Cardinality(inflight) < MaxPipeInflight

NextPipe ==
  \/ \E id \in Ids, stage \in PickedP1 : PipeRoom /\ SelectStageP1(id, stage)
  \/ \E id \in Ids, stage \in PickedP2 : PipeRoom /\ SelectStageP2(id, stage)
  \/ \E id \in Ids, stage \in PickedP3 : PipeRoom /\ SelectStageP3(id, stage)
  \/ \E text \in TypedPrices : TypePrice(text)
  \/ CancelApproved
  \/ PipeRoom /\ SaveNegotiationPrice
  \/ \E w \in inflight : WriteSucceeds(w)
  \/ \E w \in inflight : WriteFails(w)
  \/ \E f \in fetches : FetchAnswer(f)
  \/ \E f \in fetches : FetchDeliver(f)

SpecPipe == InitPipe /\ [][NextPipe]_vars

(***************************************************************************)
(* The table that takes the phase as a property, in each of the phases.    *)
(***************************************************************************)
InitGen ==
  /\ InitCommon
  /\ mounted = {"G"}
  /\ phaseProp \in Phases
  /\ store = [id \in Ids |->
                IF id = "c1"
                THEN Contact(getPhaseNumber(phaseProp), getDefaultStageForPhase(phaseProp),
                             Null, Null)
                ELSE Absent]
  /\ contacts = [t \in Tables |-> NoRows]
  /\ fetches = {NewFetch("G", 0)}

GenRoom == nCalls < MaxGenCalls

NextGen ==
  \/ \E id \in Ids, stage \in Range(PHASE_1_STAGES) \cup Range(PHASE_2_STAGES)
                                \cup Range(PHASE_3_STAGES) : GenRoom /\ SelectStageG(id, stage)
  \/ \E text \in TypedReasons \cup TypedInstructions \cup TypedAmounts : TypeDraft(text)
  \/ \E dev \in Range(DEVELOPERS) : ChooseDeveloper(dev)
  \/ CancelDialog
  \/ GenRoom /\ SaveDialog
  \/ \E w \in inflight : WriteSucceeds(w)
  \/ \E w \in inflight : WriteFails(w)
  \/ \E f \in fetches : FetchAnswer(f)
  \/ \E f \in fetches : FetchDeliver(f)

SpecGen == InitGen /\ [][NextGen]_vars

(***************************************************************************)
(* The capture dialogs of both implementations over one store: the table   *)
(* that takes the phase as a property next to the phase-2 table.           *)
(***************************************************************************)
InitDialogs ==
  /\ InitCommon
  /\ mounted = {"P2", "G"}
  /\ phaseProp \in {"presentation", "conversion"}
  /\ store = [id \in Ids |->
                IF id = "c1" THEN Contact(2, "Demo Created", Null, Null)
                ELSE Contact(getPhaseNumber(phaseProp), getDefaultStageForPhase(phaseProp),
                             Null, Null)]
  /\ contacts = [t \in Tables |-> IF t \in mounted THEN FetchResult(t, TablePhase(t)) ELSE NoRows]
  /\ fetches = {}

NextDialogs ==
  \/ \E id \in Ids, stage \in Range(PHASE_2_STAGES) \cup Range(PHASE_3_STAGES) :
       GenRoom /\ SelectStageG(id, stage)
  \/ \E text \in TypedReasons \cup TypedInstructions \cup TypedAmounts : TypeDraft(text)
  \/ \E dev \in Range(DEVELOPERS) : ChooseDeveloper(dev)
  \/ CancelDialog
  \/ GenRoom /\ SaveDialog
  \/ \E id \in Ids, stage \in PickedP2 : GenRoom /\ SelectStageP2(id, stage)
  \/ \E text \in TypedPrices : TypePrice(text)
  \/ CancelApproved
  \/ GenRoom /\ SaveNegotiationPrice
  \/ \E w \in inflight : WriteSucceeds(w)
  \/ \E w \in inflight : WriteFails(w)
  \/ \E f \in fetches : FetchAnswer(f)
  \/ \E f \in fetches : FetchDeliver(f)

SpecDialogs == InitDialogs /\ [][NextDialogs]_vars

(***************************************************************************)
(* Notes and capture dialogs in one table: the notes cell of a contact is  *)
(* edited and a rejection or a payment is confirmed for it; the store      *)
(* answers the writes in the order they were issued.                       *)
(***************************************************************************)
InitNotes ==
  /\ InitCommon
  /\ mounted = {"G"}
  /\ phaseProp \in {"presentation", "conversion"}
  /\ store = [id \in Ids |->
                IF id = "c1"
                THEN Contact(getPhaseNumber(phaseProp), getDefaultStageForPhase(phaseProp),
                             Null, Null)
                ELSE Absent]
  /\ contacts = [t \in Tables |-> IF t = "G" THEN store ELSE NoRows]
  /\ fetches = {}

\* the stages picked: the ones confirmed with a note
PickedNotes == {"Rejected", "Closed Won"}

NotesRoom == nCalls < MaxNotesCalls

NextNotes ==
  \/ \E id \in Ids : StartEditing("G", id, "notes")
  \/ \E text \in Typed : NotesRoom /\ InputChange("G", text)
  \/ NotesRoom /\ Blur("G")
  \/ KeyEscape("G")
  \/ \E tm \in timers : TimerFire(tm)
  \/ Tick
  \/ \E id \in Ids, stage \in PickedNotes : SelectStageG(id, stage)
  \/ \E text \in TypedReasons \cup TypedAmounts : TypeDraft(text)
  \/ CancelDialog
  \/ NotesRoom /\ SaveDialog
  \/ \E w \in inflight : Oldest(w) /\ WriteSucceeds(w)

SpecNotes == InitNotes /\ [][NextNotes]_vars

(***************************************************************************)
(* The synchronisation layer with writes that fail: one table, one         *)
(* contact, two text cells.                                                *)
(***************************************************************************)
EditedFields == {"notes", "email"}
FailRoom == nCalls < MaxFailCalls

NextFail ==
  \/ \E id \in Ids, f \in EditedFields : StartEditing("G", id, f)
  \/ \E text \in Typed : FailRoom /\ InputChange("G", text)
  \/ FailRoom /\ Blur("G")
  \/ FailRoom /\ KeyEnter("G")
  \/ KeyEscape("G")
  \/ \E tm \in timers : TimerFire(tm)
  \/ Tick
  \/ \E w \in inflight : Oldest(w) /\ WriteSucceeds(w)
  \/ \E w \in inflight : Oldest(w) /\ WriteFails(w)

SpecFail == InitSync /\ [][NextFail]_vars

(***************************************************************************)
(* The phase-2 table with its call and email buttons.                      *)
(***************************************************************************)
InitTrack ==
  /\ InitCommon
  /\ mounted = {"P2"}
  /\ phaseProp = "lead"
  /\ store = [id \in Ids |-> Contact(2, "Request Demo", Null, Null)]
  /\ contacts = [t \in Tables |-> IF t \in mounted THEN FetchResult(t, TablePhase(t)) ELSE NoRows]
  /\ fetches = {}

TrackRoom == nCalls < MaxTrackCalls

NextTrack ==
  \/ \E id \in Ids : TrackRoom /\ TrackContact("P2", id)
  \/ Tick
  \/ \E w \in inflight : WriteSucceeds(w)
  \/ \E w \in inflight : WriteFails(w)

SpecTrack == InitTrack /\ [][NextTrack]_vars

(***************************************************************************)
(* The cells of the business name and of the notes of one contact.         *)
(***************************************************************************)
NamedFields == {"business_name", "notes"}
BlankRoom == nCalls < MaxBlankCalls

NextBlank ==
  \/ \E id \in Ids, f \in NamedFields : StartEditing("G", id, f)
  \/ \E text \in Typed : BlankRoom /\ InputChange("G", text)
  \/ BlankRoom /\ Blur("G")
  \/ BlankRoom /\ KeyEnter("G")
  \/ KeyEscape("G")
  \/ \E tm \in timers : TimerFire(tm)
  \/ Tick
  \/ \E w \in inflight : Oldest(w) /\ WriteSucceeds(w)
  \/ \E w \in inflight : Oldest(w) /\ WriteFails(w)

SpecBlank == InitSync /\ [][NextBlank]_vars

(***************************************************************************)
(* Two contacts of one list whose business names and emails are edited.    *)
(***************************************************************************)
\* the names and emails the rows come with
DupNames == {Txt(<<>>)}
DupEmails == {Null, Txt(<<" ">>), Txt(<<"A">>)}

NamedContact(name, email) ==
  [Contact(1, "Lead", Null, Null) EXCEPT !.business_name = name, !.email = email]

InitDup ==
  /\ InitCommon
  /\ mounted = {"G"}
  /\ phaseProp = "lead"
  /\ \E n1 \in DupNames, e2 \in DupEmails :
       store = [id \in Ids |-> IF id = "c1" THEN NamedContact(n1, Txt(<<"a">>))
                               ELSE NamedContact(Txt(<<" ", "A">>), e2)]
  /\ contacts = [t \in Tables |-> IF t = "G" THEN store ELSE NoRows]
  /\ fetches = {}

DupRoom == nCalls < MaxDupCalls

NextDup ==
  \/ \E id \in Ids, f \in IdentityFields : StartEditing("G", id, f)
  \/ \E text \in Typed : DupRoom /\ InputChange("G", text)
  \/ DupRoom /\ Blur("G")
  \/ KeyEscape("G")
  \/ \E tm \in timers : TimerFire(tm)
  \/ Tick
  \/ \E w \in inflight : Oldest(w) /\ WriteSucceeds(w)
  \/ \E w \in inflight : Oldest(w) /\ WriteFails(w)

SpecDup == InitDup /\ [][NextDup]_vars

(***************************************************************************)
(* One table with its row buttons: New, delete, call, set last update, and *)
(* the cells of the name and the notes.                                    *)
(***************************************************************************)
InitRows ==
  /\ InitCommon
  /\ \E t \in {"G", "P1"} : mounted = {t}
  /\ phaseProp \in {"lead", "presentation"}
  /\ "P1" \in mounted => phaseProp = "lead"
  /\ store = [id \in Ids |-> IF id = "c1" THEN NewRow("G") ELSE Absent]
  /\ contacts = [t \in Tables |-> IF t \in mounted THEN store ELSE NoRows]
  /\ fetches = {}

RowsRoom == nCalls < MaxRowsCalls

\* the text the operator types in a cell, within the debounce delay of the last key
RowTexts == {<<"a">>}

NextRows ==
  \/ \E t \in mounted : RowsRoom /\ handleAddNew(t)
  \/ \E t \in mounted, id \in Ids : RowsRoom /\ handleDelete(t, id)
  \/ \E t \in mounted, id \in Ids : RowsRoom /\ handleSetLastUpdate(t, id)
  \/ \E t \in mounted, id \in Ids : RowsRoom /\ TrackContact(t, id)
  \/ \E t \in mounted, id \in Ids : StartEditing(t, id, "notes")
  \/ \E t \in mounted, text \in RowTexts : RowsRoom /\ InputChange(t, text)
  \/ \E t \in mounted : RowsRoom /\ Blur(t)
  \/ \E t \in mounted : RowsRoom /\ BlurNewRow(t)
  \/ \E t \in mounted : KeyEscape(t)
  \/ \E w \in inflight : WriteSucceeds(w)
  \/ \E w \in inflight : WriteFails(w)

SpecRows == InitRows /\ [][NextRows]_vars

(***************************************************************************)
(* One contact with its updated_at column, written by every kind of        *)
(* update: field patch, transition, payment dialog, tracking, last update. *)
(***************************************************************************)
\* a row of the store with the updated_at column, created at time 0
Stamped(row) == row @@ ("updated_at" :> 0)

InitStamp ==
  /\ InitCommon
  /\ mounted = {"G"}
  /\ phaseProp \in {"lead", "conversion"}
  /\ store = [id \in Ids |-> IF id = "c1" THEN Stamped(NewRow("G")) ELSE Absent]
  /\ contacts = [t \in Tables |-> IF t = "G" THEN store ELSE NoRows]
  /\ fetches = {}

StampRoom == nCalls < MaxStampCalls
PickedStamp == {"Demo Stage", "Closed Won"}

NextStamp ==
  \/ \E id \in Ids : StartEditing("G", id, "notes")
  \/ \E text \in RowTexts : StampRoom /\ InputChange("G", text)
  \/ StampRoom /\ Blur("G")
  \/ \E tm \in timers : TimerFire(tm)
  \/ Tick
  \/ \E id \in Ids : StampRoom /\ TrackContact("G", id)
  \/ \E id \in Ids : StampRoom /\ handleSetLastUpdate("G", id)
  \/ \E id \in Ids, stage \in PickedStamp : StampRoom /\ SelectStageG(id, stage)
  \/ \E text \in TypedPrices : TypeDraft(text)
  \/ CancelDialog
  \/ StampRoom /\ SaveDialog
  \/ \E w \in inflight : WriteSucceeds(w)
  \/ \E w \in inflight : WriteFails(w)

SpecStamp == InitStamp /\ [][NextStamp]_vars

(***************************************************************************)
(* The phase-3 table with its two amount cells, value and deposit.         *)
(***************************************************************************)
NumericFields == {"value", "deposit"}

\* what the operator types in an amount cell: every text of up to MaxAmountLen of these
\* characters, and the text of a price with its currency sign and separator
AmountChars == {"₱", ",", "1", ".", "a"}
AmountTexts ==
  UNION {[1..n -> AmountChars] : n \in 0..MaxAmountLen} \cup {<<"₱", "1", "2", ",", "0", "0", "0">>}

\* startEditing(contact.id, "deposit", contact.deposit?.toString() || "")
StartEditingAmount(t, id, field) ==
  /\ t \in mounted
  /\ dialog[t] = NoDialog
  /\ editing[t] = NoEdit
  /\ InList(t, id)
  /\ field \in NumericFields
  /\ editing' = [editing EXCEPT ![t] = [id |-> id, field |-> field,
                                         value |-> NumberText(contacts[t][id][field])]]
  /\ ev' = "startEditing"
  /\ UNCHANGED <<store, contacts, mounted, epoch, phaseProp, pendingSaveRef, timers, inflight,
                 fetches, dialog, draft, now, nCalls, nFail, callLog, issued, toasts>>

InitAmount ==
  /\ InitCommon
  /\ mounted = {"P3"}
  /\ phaseProp = "lead"
  /\ store = [id \in Ids |-> IF id = "c1"
                             THEN Contact(3, "Negotiating", Null, Null) @@ ("deposit" :> Null)
                             ELSE Absent]
  /\ contacts = [t \in Tables |-> IF t = "P3" THEN store ELSE NoRows]
  /\ fetches = {}

AmountRoom == nCalls < MaxAmountCalls

NextAmount ==
  \/ \E id \in Ids, f \in NumericFields : StartEditingAmount("P3", id, f)
  \/ \E text \in AmountTexts : AmountRoom /\ InputChange("P3", text)
  \/ AmountRoom /\ Blur("P3")
  \/ AmountRoom /\ KeyEnter("P3")
  \/ KeyEscape("P3")
  \/ \E tm \in timers : TimerFire(tm)
  \/ Tick
  \/ \E w \in inflight : WriteSucceeds(w)
  \/ \E w \in inflight : WriteFails(w)

SpecAmount == InitAmount /\ [][NextAmount]_vars

(***************************************************************************)
(* The phase-1 table with its attempts counter, its call and email buttons *)
(* and its delete button; the store answers the requests in their order.   *)
(***************************************************************************)
InitCount ==
  /\ InitCommon
  /\ mounted = {"P1"}
  /\ phaseProp = "lead"
  /\ store = [id \in Ids |-> Contact(1, "Lead", Null, Null)]
  /\ contacts = [t \in Tables |-> IF t = "P1" THEN store ELSE NoRows]
  /\ fetches = {}

CountRoom == nCalls < MaxCountCalls

NextCount ==
  \/ \E id \in Ids : CountRoom /\ handleIncrementAttempts("P1", id)
  \/ \E id \in Ids : CountRoom /\ TrackContact("P1", id)
  \/ \E id \in Ids : CountRoom /\ handleDelete("P1", id)
  \/ \E w \in inflight : Oldest(w) /\ WriteSucceeds(w)
  \/ \E w \in inflight : Oldest(w) /\ WriteFails(w)

SpecCount == InitCount /\ [][NextCount]_vars

(***************************************************************************)
(* The capture dialogs, the Approved dialog and the delete button, with    *)
(* writes that fail.                                                       *)
(***************************************************************************)
NextConfirm ==
  \/ \E id \in Ids, stage \in Range(PHASE_2_STAGES) \cup Range(PHASE_3_STAGES) :
       GenRoom /\ SelectStageG(id, stage)
  \/ \E text \in TypedReasons \cup TypedInstructions \cup TypedAmounts : TypeDraft(text)
  \/ CancelDialog
  \/ GenRoom /\ SaveDialog
  \/ \E id \in Ids : GenRoom /\ SelectStageP2(id, "Demo Approved")
  \/ \E text \in TypedPrices : TypePrice(text)
  \/ CancelApproved
  \/ GenRoom /\ SaveNegotiationPrice
  \/ \E t \in {"G", "P2"}, id \in Ids : GenRoom /\ handleDelete(t, id)
  \/ \E w \in inflight : WriteSucceeds(w)
  \/ \E w \in inflight : WriteFails(w)

SpecConfirm == InitDialogs /\ [][NextConfirm]_vars

(***************************************************************************)
(* The CRM page with two phase-1 contacts that are moved to 'Demo Stage'.  *)
(***************************************************************************)
InitMove ==
  /\ InitCommon
  /\ mounted = {"P1", "P2", "P3"}
  /\ phaseProp = "lead"
  /\ store = [id \in Ids |-> Contact(1, "Lead", Null, Null)]
  /\ contacts = [t \in Tables |-> IF t \in mounted THEN FetchResult(t, TablePhase(t)) ELSE NoRows]
  /\ fetches = {}

MoveRoom == nCalls < MaxMoveCalls

NextMove ==
  \/ \E id \in Ids : MoveRoom /\ SelectStageP1(id, "Demo Stage")
  \/ \E w \in inflight : WriteSucceeds(w)
  \/ \E w \in inflight : WriteFails(w)
  \/ \E f \in fetches : FetchAnswer(f)
  \/ \E f \in fetches : FetchDeliver(f)

SpecMove == InitMove /\ [][NextMove]_vars

(***************************************************************************)
(* The table that takes the phase as a property while its parent changes   *)
(* the phase: the effect on [categoryId, phase] fetches again.             *)
(***************************************************************************)
\* useEffect(() => { fetchContacts(); }, [categoryId, phase]) on a new phase: the
\* instance stays, its list stays until a response arrives
ChangePhase(p) ==
  /\ "G" \in mounted
  /\ p # phaseProp
  /\ nCalls < MaxPhaseChanges
  /\ nCalls' = nCalls + 1
  /\ phaseProp' = p
  /\ fetches' = fetches \cup {[t |-> "G", ep |-> epoch["G"], p |-> getPhaseNumber(p),
                               answered |-> FALSE, data |-> NoRows]}
  /\ ev' = "changePhase"
  /\ UNCHANGED <<store, contacts, mounted, epoch, pendingSaveRef, timers, inflight, dialog,
                 editing, draft, now, nFail, callLog, issued, toasts>>

InitShown ==
  /\ InitCommon
  /\ mounted = {"G"}
  /\ phaseProp \in Phases
  /\ \E s1 \in {"Lead", "Not Interested"}, s2 \in {"Request Demo", "Negotiating"} :
       store = [id \in Ids |-> IF id = "c1" THEN Contact(1, s1, Null, Null)
                               ELSE Contact(IF s2 = "Negotiating" THEN 3 ELSE 2, s2, Null, Null)]
  /\ contacts = [t \in Tables |-> NoRows]
  /\ fetches = {NewFetch("G", 0)}

NextShown ==
  \/ \E p \in Phases : ChangePhase(p)
  \/ \E f \in fetches : FetchAnswer(f)
  \/ \E f \in fetches : FetchDeliver(f)

SpecShown == InitShown /\ [][NextShown]_vars

(***************************************************************************)
(* The demo request and rejection dialogs of one table, opened for one     *)
(* contact after the other.                                                *)
(***************************************************************************)
InitCapture ==
  /\ InitCommon
  /\ mounted = {"G"}
  /\ phaseProp = "presentation"
  /\ store = [id \in Ids |-> Contact(2, "Demo Created", Null, Null)]
  /\ contacts = [t \in Tables |-> IF t \in mounted THEN FetchResult(t, TablePhase(t)) ELSE NoRows]
  /\ fetches = {}

CaptureRoom == nCalls < MaxCaptureCalls
CaptureStages == {"Request Demo", "Rejected"}

NextCapture ==
  \/ \E id \in Ids, stage \in CaptureStages : SelectStageG(id, stage)
  \/ \E text \in TypedReasons \cup TypedInstructions : TypeDraft(text)
  \/ \E dev \in Range(DEVELOPERS) : ChooseDeveloper(dev)
  \/ CancelDialog
  \/ CaptureRoom /\ SaveDialog
  \/ \E w \in inflight : WriteSucceeds(w)
  \/ \E w \in inflight : WriteFails(w)

SpecCapture == InitCapture /\ [][NextCapture]_vars

(***************************************************************************)
(* Properties of the synchronisation layer.                                *)
(***************************************************************************)
SameKey(a, b) == a.t = b.t /\ a.id = b.id /\ a.field = b.field

\* call j is the next call after call i on the key of call i
NextOnKey(i, j) ==
  /\ i < j
  /\ SameKey(callLog[i], callLog[j])
  /\ \A m \in (i + 1)..(j - 1) : ~ SameKey(callLog[i], callLog[m])

LastOnKey(j) == \A m \in (j + 1)..Len(callLog) : ~ SameKey(callLog[j], callLog[m])

IssuedFor(n) == {p \in DOMAIN issued : issued[p].n = n}

\* call j continues a burst: it is debounced, follows debounced call i on the same
\* key, and comes less than the quiescence delay after it
Rapid(i, j) ==
  /\ NextOnKey(i, j)
  /\ ~ callLog[i].immediate
  /\ ~ callLog[j].immediate
  /\ callLog[j].at - callLog[i].at < DebounceDelay

\* C2 (debounce coalescing): of the debounced calls of a burst on one key, each made
\* less than the quiescence delay after the previous one, only the last one issues a
\* write, and once the delay has passed after it that one write has been issued with
\* the last value.
C2_Coalescing ==
  /\ \A i, j \in DOMAIN callLog : Rapid(i, j) => IssuedFor(callLog[i].n) = {}
  /\ \A j \in DOMAIN callLog :
       (~ callLog[j].immediate /\ LastOnKey(j) /\ now > callLog[j].at + DebounceDelay)
         => /\ Cardinality(IssuedFor(callLog[j].n)) = 1
            /\ \A p \in IssuedFor(callLog[j].n) : issued[p].value = callLog[j].value

\* C3 (immediate flush): an immediate call issues its write in the same step, and a
\* debounced write scheduled earlier for the same key that had not fired by then is
\* never sent afterwards.
C3_ImmediateFlush ==
  /\ \A j \in DOMAIN callLog :
       callLog[j].immediate =>
         /\ Len(issued) > callLog[j].seen
         /\ issued[callLog[j].seen + 1].n = callLog[j].n
  /\ \A i, j \in DOMAIN callLog :
       (i < j /\ SameKey(callLog[i], callLog[j]) /\ ~ callLog[i].immediate
          /\ callLog[j].immediate)
         => \A p \in IssuedFor(callLog[i].n) : p <= callLog[j].seen

\* C4 (per-key write ordering): the writes issued for one key carry values in call
\* order: no write with the value of an earlier call is issued after a write with the
\* different value of a later call.
C4_CallOrder ==
  \A p, q \in DOMAIN issued :
    (p < q /\ SameKey(issued[p], issued[q]))
      => issued[p].n < issued[q].n \/ issued[p].value = issued[q].value

Quiescent == timers = {} /\ inflight = {} /\ fetches = {}

EditedKey(t, id, field) ==
  \E i \in DOMAIN callLog :
    callLog[i].t = t /\ callLog[i].id = id /\ callLog[i].field = field

\* C5 (eventual consistency): without write failures, once every timer has fired and
\* every write has completed, each field edited through handleUpdate of a contact in
\* a list has the same value in the store as in the list.
C5_EventuallyConsistent ==
  (Quiescent /\ nFail = 0) =>
    \A t \in mounted, id \in Ids, field \in Fields :
      (InList(t, id) /\ EditedKey(t, id, field) /\ store[id] # Absent)
        => store[id][field] = contacts[t][id][field]

(***************************************************************************)
(* Properties of the pipeline.                                             *)
(***************************************************************************)
\* the stage list of a phase, as the selects of the three tables offer it
StagesForPhase(p) ==
  CASE p = 1 -> Range(Phase1Options)
    [] p = 2 -> Range(phase2SalesStages)
    [] p = 3 -> Range(PHASE3_SALES_STAGES)

Stored == {id \in Ids : store[id] # Absent}

\* C1 (vocabulary containment): the sales_stage of every stored contact is a member
\* of the stage list of its stored current_phase.
C1_VocabularyContainment ==
  \A id \in Stored : store[id].sales_stage \in StagesForPhase(store[id].current_phase)

\* C6 (phase monotonicity): no step lowers the stored current_phase of a contact.
C6_PhaseMonotone ==
  [][\A id \in Stored :
       store'[id] # Absent => store'[id].current_phase >= store[id].current_phase]_vars

\* row b follows row a with the phase advanced and the stage still one of the old
\* phase, or with the stage changed to one of a later phase and the phase unchanged
HalfTransition(a, b) ==
  \/ /\ b.current_phase > a.current_phase
     /\ b.sales_stage \in StagesForPhase(a.current_phase)
  \/ /\ b.current_phase = a.current_phase
     /\ b.sales_stage # a.sales_stage
     /\ \E q \in 1..3 : q > a.current_phase /\ b.sales_stage \in StagesForPhase(q)

\* C7 (transition atomicity): no step takes a contact, in the store or in the list of
\* a table, to a record whose current_phase has advanced while its sales_stage is
\* still a value of the old phase, or whose sales_stage has become a value of a later
\* phase while its current_phase is still the old one.
C7_TransitionAtomicity ==
  [][/\ \A id \in Stored : store'[id] # Absent => ~ HalfTransition(store[id], store'[id])
     /\ \A t \in mounted, id \in Ids :
          (InList(t, id) /\ contacts'[t][id] # Absent)
            => ~ HalfTransition(contacts[t][id], contacts'[t][id])]_vars

\* the stages that require a captured payload, by phase
NeedsPayload(p, stage) ==
  \/ p = 2 /\ stage \in {"Request Demo", "Approved", "Demo Approved", "Rejected"}
  \/ p = 3 /\ stage = "Closed Won"

\* write w commits a stage that requires a payload
CommitsGated(w) ==
  \/ w.kind = "update" /\ w.field = "sales_stage"
       /\ NeedsPayload(TablePhase(w.t), w.patch.sales_stage)
  \/ w.kind = "transition" /\ TablePhase(w.t) = 2

\* C8 (side-effect gating): the step in which a stage that requires a payload is
\* requested in a select issues no write for it (and so changes neither the list nor
\* the store): the write waits for the payload.
C8_Gating ==
  [][ev' = "select" => \A w \in inflight' \ inflight : ~ CommitsGated(w)]_vars

\* the steps of a capture: the select that opens a dialog, the typing, the cancel
CaptureStep ==
  \/ ev' \in {"typeDraft", "typePrice", "chooseDeveloper", "cancel"}
  \/ ev' = "select" /\ dialog' # dialog

\* C9 (cancel performs no mutation): from the request of the stage to the cancel of
\* the dialog, no step of the capture changes the store or a list, issues a write or
\* sets a timer.
C9_CancelNoMutation ==
  [][CaptureStep => UNCHANGED <<store, contacts, inflight, timers, pendingSaveRef, issued>>]_vars

\* a dialog was opened, a payload typed and the dialog cancelled, with no write issued
C9_Witness ==
  /\ ev = "cancel"
  /\ nCalls = 0
  /\ draft.reason # <<>> \/ draft.price # <<>> \/ draft.amount # <<>>
  /\ \A t \in Tables : dialog[t] = NoDialog

\* C10 (archival hides without deleting): with no fetch under way, a stored contact
\* whose sales_stage is an archived label is in the list of no table, as it is in no
\* fresh fetch.
C10_ArchivalHides ==
  fetches = {} =>
    \A t \in mounted, id \in Stored :
      isArchivedStage(store[id].sales_stage)
        => /\ ~ InList(t, id)
           /\ FetchResult(t, TablePhase(t))[id] = Absent

(***************************************************************************)
(* Properties of the capture dialogs and of the transitions.               *)
(***************************************************************************)
NoteTags == {"[REJECTION REASON]: ", "[PAYMENT RECEIVED]: P"}

HasBlock(notes) == notes # Null /\ \E i \in DOMAIN notes.text : notes.text[i] \in NoteTags

IsPrefix(a, b) == Len(a) <= Len(b) /\ SubSeq(b, 1, Len(a)) = a

NoteCalls(id) == {i \in DOMAIN callLog : callLog[i].id = id /\ callLog[i].field = "notes"}

\* the note text entered last for the contact through the notes cell
LastNote(id) ==
  IF NoteCalls(id) = {} THEN <<>>
  ELSE TextOf(callLog[CHOOSE i \in NoteCalls(id) : \A j \in NoteCalls(id) : j <= i].value)

\* the operation that ran last is not a handleUpdate call: it is the save of a dialog
LastCallIsSave == nCalls > 0 /\ \A i \in DOMAIN callLog : callLog[i].n # nCalls

\* C11 (notes append never loses content): when the confirmation of a rejection or of
\* a payment is the last operation on a contact and every write has landed, the stored
\* notes begin with the note text entered last before the save and contain the tagged
\* block.
C11_NotesAppendKept ==
  (Quiescent /\ nFail = 0 /\ LastCallIsSave) =>
    \A id \in Stored :
      /\ HasBlock(store[id].notes)
      /\ IsPrefix(LastNote(id), store[id].notes.text)

\* the initial stage of a phase: the default of the stage configuration, or the
\* first option of the select of the phase's table
InitialStages(p) ==
  CASE p = 1 -> {getDefaultStageForPhase("lead"), Head(Phase1Options)}
    [] p = 2 -> {getDefaultStageForPhase("presentation"), Head(phase2SalesStages)}
    [] p = 3 -> {getDefaultStageForPhase("conversion"), Head(PHASE3_SALES_STAGES)}

\* contact id moves from phase p to phase q in the store in this step
Moves(id, p, q) ==
  /\ store[id] # Absent /\ store'[id] # Absent
  /\ store[id].current_phase = p
  /\ store'[id].current_phase = q

\* C12 (Demo Stage): the step in which the write of a 'Demo Stage' selection on a
\* phase-1 contact succeeds leaves the stored record with current_phase = 2 and
\* sales_stage = 'Request Demo', the initial stage of phase 2, and the contact is
\* not in the list of the phase-1 table.
C12_DemoStageResult ==
  [][\A id \in Ids :
       Moves(id, 1, 2) => /\ store'[id].sales_stage = "Request Demo"
                          /\ store'[id].sales_stage \in InitialStages(2)
                          /\ contacts'["P1"][id] = Absent]_vars

\* the approval writes of contact id the network carries
Approvals(id) == {w \in inflight : w.kind = "approve" /\ w.id = id}

\* C13 (negotiated price): the step in which the write of a confirmed negotiated
\* price succeeds is one write that leaves the stored record with current_phase = 3,
\* sales_stage = the initial stage of phase 3 and value = the price entered, and the
\* contact is not in the list of the phase-2 table.
C13_ApprovedResult ==
  [][\A id \in Ids :
       Moves(id, 2, 3) => /\ store'[id].sales_stage \in InitialStages(3)
                          /\ \E w \in Approvals(id) : /\ store'[id].value = w.patch.value
                                                      /\ inflight' = inflight \ {w}
                          /\ contacts'["P2"][id] = Absent]_vars

\* the writes of a stage this step hands to the network
StageWritesIssued == {w \in inflight' \ inflight : "sales_stage" \in DOMAIN w.patch}

\* C14 (validation rejection): a stage change whose requested stage is not in the
\* stage list of the current_phase the contact has in the store is rejected: no step
\* issues a network write of such a stage.
C14_ValidationRejection ==
  [][\A w \in StageWritesIssued :
       store[w.id] # Absent =>
         w.patch.sales_stage \in StagesForPhase(store[w.id].current_phase)]_vars

\* the refetches this step delivers: a table that was never remounted fetches again
\* only in the error branch of performSave
RefetchesDelivered == {f \in fetches \ fetches' : f.answered /\ epoch[f.t] = 0}

\* the contacts the store holds as the active set of table t
ActiveSet(t) == {id \in Ids : FetchResult(t, TablePhase(t))[id] # Absent}

\* C15 (refetch after a failed move): when the refetch that the failed write of a
\* transition or archival stage change started completes, the contacts in the list of
\* the table are the active set of the store for the table's phase.
C15_RefetchRestores ==
  [][\A f \in RefetchesDelivered :
       {id \in Ids : contacts'[f.t][id] # Absent} = ActiveSet(f.t)]_vars

(***************************************************************************)
(* Properties of the failure of a write.                                   *)
(***************************************************************************)
\* the step is a call of handleUpdate for the cell being edited, after a failure
EditsAfterFailure(immediate) ==
  /\ nFail > 0
  /\ nCalls' = nCalls + 1
  /\ callLog' # callLog
  /\ callLog'[Len(callLog')].immediate = immediate

\* C16 (failed plain edit): the step in which the write of a plain field edit fails
\* leaves every list as it is (the optimistic value stays), raises one notification
\* and cancels nothing; an edit made after the failure is applied to the list, and
\* its write is issued at once if immediate and scheduled if not.
C16_FailedEditKept ==
  [][/\ ev' = "writeFailed" =>
          /\ contacts' = contacts
          /\ toasts' = toasts + 1
          /\ timers' = timers /\ editing' = editing /\ store' = store
          /\ inflight' \subseteq inflight
     /\ \A b \in BOOLEAN :
          EditsAfterFailure(b) =>
            LET c == callLog'[Len(callLog')]
            IN /\ contacts'[c.t][c.id][c.field] = c.value
               /\ b => \E w \in inflight' \ inflight : w.id = c.id /\ w.patch = (c.field :> c.value)
               /\ ~ b => \E tm \in timers' \ timers : tm.id = c.id /\ tm.patch = (c.field :> c.value)]_vars

\* a write failed and left in the list a value the store does not hold
C16_Witness ==
  /\ ev = "writeFailed"
  /\ toasts = 1
  /\ contacts["G"]["c1"].notes = Txt(<<"a">>)
  /\ store["c1"].notes = Null

(***************************************************************************)
(* Properties of the writes of handleUpdate.                               *)
(***************************************************************************)
\* the writes of handleUpdate that succeed in this step
UpdatesLanded == {w \in inflight \ inflight' : w.kind = "update" /\ ev' = "writeOk"}

\* the step changes, in the store, at most the columns cols of record id
ChangesOnly(id, cols) ==
  \A i \in Ids :
    /\ store[i] = Absent <=> store'[i] = Absent
    /\ store[i] # Absent =>
         \A f \in DOMAIN store[i] : store'[i][f] # store[i][f] => (i = id /\ f \in cols)

\* C17 (field-scoped writes): the write handleUpdate(id, f, ...) issued
\* changes, when it succeeds, only field f of record id: no other field of that
\* record and no field of another record.
C17_FieldScoped ==
  [][\A w \in UpdatesLanded : ChangesOnly(w.id, {w.field})]_vars

(***************************************************************************)
(* Properties of the contact activity.                                     *)
(***************************************************************************)
\* the call and email actions made on contact id
TrackCalls(id) == {i \in DOMAIN callLog : callLog[i].id = id /\ callLog[i].field = "contact_count"}

\* C18 (contact count): once the writes of the call and email actions have all
\* succeeded, the stored contact_count of a contact is its initial count, 0, plus the
\* number of actions made on it, and last_contacted_at is set if there was one.
C18_CountsEveryAction ==
  (inflight = {} /\ nFail = 0) =>
    \A id \in Stored :
      /\ store[id].contact_count = Cardinality(TrackCalls(id))
      /\ TrackCalls(id) # {} => store[id].last_contacted_at # Null

(***************************************************************************)
(* Properties of the normalisation of text.                                *)
(***************************************************************************)
\* the optional text columns of a contact the cells edit
OptionalText == {"notes", "email"}

\* a text that is empty or only white space
Blank(v) == v # Null /\ Trim(v.text) = <<>>

\* C19 (blank normalisation): no optional text field of a stored contact is an empty
\* or white-space-only string (blank input is stored as null), business_name is
\* never written as null, and a blank business_name is stored as the empty string.
C19_BlankNormalization ==
  /\ \A id \in Stored : \A f \in OptionalText : ~ Blank(store[id][f])
  /\ \A i \in DOMAIN issued : issued[i].field = "business_name" => issued[i].value # Null
  /\ \A id \in Stored : store[id].business_name # Null
                        /\ (Blank(store[id].business_name) => store[id].business_name = Txt(<<>>))

(***************************************************************************)
(* Properties of the duplicate detection.                                  *)
(***************************************************************************)
\* contact b is reported as a duplicate of contact a on field f in the list of t
ReportedFor(t, f, a, b) == b \in findDuplicates(t, f, a, contacts[t][a][f])

\* C20 (duplicate symmetry): for every identity field F and every two contacts A
\* and B in the list of a table, findDuplicates(F, A.id, A[F]) contains B if and
\* only if findDuplicates(F, B.id, B[F]) contains A.
C20_DuplicateSymmetry ==
  \A t \in mounted, f \in IdentityFields, a \in Ids, b \in Ids :
    (InList(t, a) /\ InList(t, b)) => (ReportedFor(t, f, a, b) <=> ReportedFor(t, f, b, a))

\* an edit has made c1 a duplicate of c2, whose name differs in case and white space
C20_Witness ==
  /\ ev = "inputChange"
  /\ contacts["G"]["c1"].business_name = Txt(<<"a">>)
  /\ contacts["G"]["c2"].business_name = Txt(<<" ", "A">>)
  /\ store["c1"].business_name # Txt(<<"a">>)
  /\ ReportedFor("G", "business_name", "c1", "c2")
  /\ ReportedFor("G", "business_name", "c2", "c1")

\* the values findDuplicates is asked about
DupValues == {Null, Txt(<<>>), Txt(<<" ">>), Txt(<<"A">>), Txt(<<"a", " ">>), Txt(<<"B">>)}

\* a value that is null, empty or white space only
BlankValue(v) == v = Null \/ Trim(v.text) = <<>>

\* the contacts of the list of t, other than contactId, whose field f is a text that,
\* trimmed and lower-cased, is the trimmed lower-cased value
SameNormalized(t, f, contactId, v) ==
  {c \in Ids : /\ InList(t, c)
               /\ c # contactId
               /\ contacts[t][c][f] # Null
               /\ ToLowerCase(Trim(contacts[t][c][f].text)) = ToLowerCase(Trim(v.text))}

\* C21 (findDuplicates): for every identity field F, contact id and value,
\* findDuplicates(F, contactId, value) is the empty list when the value is null, empty
\* or white space only, and otherwise exactly the contacts of the list other than
\* contactId whose field F, trimmed and lower-cased, equals the trimmed lower-cased
\* value; contactId itself is never in the result.
C21_FindDuplicatesExact ==
  \A t \in mounted, f \in IdentityFields, id \in Ids, v \in DupValues :
    findDuplicates(t, f, id, v) =
      IF BlankValue(v) THEN {} ELSE SameNormalized(t, f, id, v) \ {id}

\* the email typed for c2 makes c1, and only c1, its duplicate; a blank value has none
C21_Witness ==
  /\ ev = "inputChange"
  /\ contacts["G"]["c2"].email = Txt(<<"a">>)
  /\ store["c2"].email # Txt(<<"a">>)
  /\ findDuplicates("G", "email", "c2", Txt(<<"A">>)) = {"c1"}
  /\ findDuplicates("G", "email", "c2", Txt(<<" ">>)) = {}

(***************************************************************************)
(* Properties of the rows added and removed.                               *)
(***************************************************************************)
\* the contacts the store gets in this step
Created == {id \in Ids : store[id] = Absent /\ store'[id] # Absent}

\* C22 (new contact): a contact the store gets has current_phase = 1, sales_stage =
\* 'Lead', the initial stage of phase 1, contact_count = 0, and the category of the
\* table that created it.
C22_NewContactIsLead ==
  [][\A id \in Created :
       /\ store'[id].current_phase = 1
       /\ store'[id].sales_stage = "Lead"
       /\ store'[id].contact_count = 0
       /\ store'[id].category_id = CategoryId]_vars

(***************************************************************************)
(* Properties of the payment confirmation.                                 *)
(***************************************************************************)
\* the payment writes issued, and those that succeed, in this step
PaymentsIssued == {w \in inflight' \ inflight : w.kind = "payment"}
PaymentsLanded == {w \in inflight \ inflight' : w.kind = "payment" /\ ev' = "writeOk"}

\* the notes end with the payment block of the amount
EndsWithPayment(notes, amount) ==
  LET block == <<"[PAYMENT RECEIVED]: P">> \o LocaleText(amount)
  IN /\ notes # Null
     /\ Len(notes.text) >= Len(block)
     /\ SubSeq(notes.text, Len(notes.text) - Len(block) + 1, Len(notes.text)) = block

\* C23 (payment confirmation): confirming a payment amount for a 'Closed Won' request
\* issues one write whose sales_stage is 'Closed Won', whose value is the amount
\* entered and whose notes are the notes of the row with the payment block appended;
\* when it succeeds the store holds these three values with current_phase unchanged,
\* and the contact is in the list of the table showing the same values.
C23_PaymentConfirmed ==
  [][/\ Cardinality(PaymentsIssued) <= 1
     /\ \A w \in PaymentsIssued :
          /\ w.patch.sales_stage = "Closed Won"
          /\ w.patch.value = ParseAmount(draft.amount)
          /\ IsPrefix(TextOf(contacts["G"][w.id].notes), w.patch.notes.text)
          /\ EndsWithPayment(w.patch.notes, w.patch.value)
          /\ DOMAIN w.patch = {"sales_stage", "value", "notes"}
     /\ \A w \in PaymentsLanded :
          /\ store'[w.id].sales_stage = "Closed Won"
          /\ store'[w.id].value = w.patch.value
          /\ store'[w.id].notes = w.patch.notes
          /\ store'[w.id].current_phase = store[w.id].current_phase
          /\ contacts'["G"][w.id] # Absent
          /\ \A f \in {"sales_stage", "value", "notes", "current_phase"} :
               contacts'["G"][w.id][f] = store'[w.id][f]]_vars

\* a payment of 5 was confirmed for a contact with the note 'a' and its write succeeded
C23_Witness ==
  /\ ev = "writeOk"
  /\ store["c1"].current_phase = 3
  /\ store["c1"].sales_stage = "Closed Won"
  /\ store["c1"].value = Num(5, <<>>)
  /\ store["c1"].notes = Txt(<<"a", "\n", "\n", "[PAYMENT RECEIVED]: P", "5">>)
  /\ contacts["G"]["c1"].notes = store["c1"].notes

(***************************************************************************)
(* Properties of the optimistic update.                                    *)
(***************************************************************************)
\* the step is a call of handleUpdate
UpdateCalled == callLog' # callLog /\ ev' # "track"

\* a text as handleUpdate stores it: null, or trimmed and not empty
NormalText(v) == IF v = Null THEN TRUE ELSE v.text # <<>> /\ Trim(v.text) = v.text

Accepted(id) == {w \in inflight \ inflight' : w.id = id /\ ev' = "writeOk"}

\* C25 (updated_at): no step lowers the stored updated_at of a contact, and the step
\* in which the store accepts a write for a contact (field patch, transition, payment
\* dialog, call or email tracking, set last update) leaves its updated_at at the time
\* of that write, also when the write names only contact_count or last_contacted_at.
C25_UpdatedAtStamped ==
  [][\A id \in Ids :
       (store[id] # Absent /\ store'[id] # Absent) =>
         /\ store'[id].updated_at >= store[id].updated_at
         /\ Accepted(id) # {} => store'[id].updated_at = now]_vars

\* a tracking write accepted at time 500 has followed one accepted earlier
C25_Witness ==
  /\ ev = "writeOk"
  /\ now = 500
  /\ store["c1"].updated_at = 500
  /\ store["c1"].contact_count = 1
  /\ store["c1"].last_contacted_at # Null
  /\ store["c1"].notes = Txt(<<"a">>)

(***************************************************************************)
(* Properties of the attempts of a write.                                  *)
(***************************************************************************)
\* the writes issued for call n
AttemptsOf(n) == {i \in 1..Len(issued) : issued[i].n = n}

\* a write is in flight or one has failed
Busy == inflight # {} \/ nFail > 0

\* C26 (no retry): each call of handleUpdate has at most one write issued for it, the
\* notifications raised are as many as the writes that failed (one each, and none
\* re-issued), and while a write is in flight or after one failed a cell can still be
\* opened, typed in and committed.
C26_NoRetry ==
  /\ \A n \in 1..nCalls : Cardinality(AttemptsOf(n)) <= 1
  /\ toasts = nFail
  /\ (Busy /\ editing["G"] = NoEdit) => ENABLED StartEditing("G", "c1", "notes")
  /\ (Busy /\ editing["G"] # NoEdit /\ FailRoom) =>
       /\ ENABLED KeyEnter("G")
       /\ ENABLED (\E text \in Typed : InputChange("G", text))

\* after a write failed a later call has its own write in flight, the failed one has not
C26_Witness ==
  /\ nFail = 1
  /\ toasts = 1
  /\ Len(issued) = 2
  /\ \E w \in inflight : w.n = issued[2].n /\ issued[1].n # w.n

(***************************************************************************)
(* Properties of the amount cells.                                         *)
(***************************************************************************)
IsCurrencyOrSeparator(c) == c \in {"₱", ","}
IsAmountChar(c) == ~ IsCurrencyOrSeparator(c)

\* the text without its currency signs and thousands separators
Cleaned(s) == SelectSeq(s, IsAmountChar)

\* digits with an optional fraction, or a fraction alone
IsNumeral(s) ==
  LET ip == LeadingDigits(s)
      rest == SubSeq(s, Len(ip) + 1, Len(s))
  IN IF rest = <<>> THEN ip # <<>>
     ELSE IF Head(rest) # "." THEN FALSE
     ELSE /\ LeadingDigits(Tail(rest)) = Tail(rest)
          /\ (ip # <<>> \/ Tail(rest) # <<>>)

\* the number the text stands for, null when it stands for none
AsNumber(s) == IF IsNumeral(Cleaned(s)) THEN ParseFloatOrNull(Cleaned(s)) ELSE Null

\* the text handed to handleUpdate in this step
TextGiven == IF ev' = "inputChange" THEN editing'["P3"].value ELSE editing["P3"].value

\* C27 (numeric normalization): a call of handleUpdate on value or deposit puts in the
\* list, and in the write it issues or schedules, the number the text stands for once
\* its currency signs and thousands separators are removed, and null when what is left
\* is not a number.
C27_NumericNormalization ==
  [][(ev' \in {"inputChange", "blur", "enter"} /\ editing["P3"] # NoEdit) =>
       LET c == callLog'[Len(callLog')]
       IN /\ contacts'["P3"][c.id][c.field] = AsNumber(TextGiven)
          /\ \A w \in (inflight' \ inflight) \cup (timers' \ timers) :
               w.patch[c.field] = AsNumber(TextGiven)]_vars

(***************************************************************************)
(* Properties of the scheduled writes.                                     *)
(***************************************************************************)
\* the writes scheduled for a key of a table and not yet fired
Scheduled(t, id, field) == {tm \in timers : tm.t = t /\ tm.id = id /\ tm.field = field}

\* C28 (one scheduled write per key): at every moment a key (id, field) of a table has
\* at most one scheduled write that has not fired.
C28_OneScheduledPerKey ==
  \A t \in Tables, id \in Ids, field \in Fields : Cardinality(Scheduled(t, id, field)) <= 1

(***************************************************************************)
(* Properties of the completions of row operations.                        *)
(***************************************************************************)
\* the requests that succeed in this step
Landed == {w \in inflight \ inflight' : ev' = "writeOk"}

\* contact id has been deleted: the store has no such row and the list does not show it
Removed(t, id) == store[id] = Absent /\ contacts[t][id] = Absent

\* C29 (no resurrection): a contact that a successful delete has removed from the list
\* is not put back by the completion of a tracking, set-last-update, delete or add-new
\* request (other than the insert of that very contact).
C29_RemovedStaysRemoved ==
  [][\A t \in mounted, id \in Ids :
       (Removed(t, id) /\ Landed # {} /\ \A w \in Landed : ~ (w.kind = "insert" /\ w.id = id))
         => contacts'[t][id] = Absent]_vars

\* the columns the completion of a tracking or set-last-update request may change
ActivityColumns == {"last_contacted_at", "contact_count", "updated_at"}

\* the row operations: tracking, set last update, add new, delete
RowKinds == {"track", "setLast", "insert", "delete"}

\* C30 (completions keep optimistic edits): the step in which a tracking, set-last-update,
\* add-new or delete request succeeds leaves every other contact of the list as it is,
\* with the edits made while the request was in flight, and leaves of the target of a
\* tracking or set-last-update request every column but last_contacted_at,
\* contact_count and updated_at.
C30_CompletionKeepsEdits ==
  [][\A w \in Landed :
       (w.kind \in RowKinds /\ w.t \in mounted /\ w.ep = epoch[w.t]) =>
         \A id \in Ids :
           InList(w.t, id) =>
             /\ id # w.id => contacts'[w.t][id] = contacts[w.t][id]
             /\ (id = w.id /\ w.kind \in {"track", "setLast"}) =>
                  /\ contacts'[w.t][id] # Absent
                  /\ \A f \in DOMAIN contacts[w.t][id] \ ActivityColumns :
                       contacts'[w.t][id][f] = contacts[w.t][id][f]]_vars

(***************************************************************************)
(* Properties of the attempts counter.                                     *)
(***************************************************************************)
\* the writes of attempts-counter clicks on contact id that the store accepts in this step
ClicksLanded(id) ==
  {w \in Landed : w.kind = "update" /\ w.id = id /\ w.field = "contact_count"}

\* C31 (attempts counter): the stored contact_count of a contact is never negative, no
\* step lowers it, and the step in which the write of a click on the attempts counter
\* is accepted raises it by exactly 1.
C31_CountOnlyGrows ==
  [][\A id \in Ids :
       (store[id] # Absent /\ store'[id] # Absent) =>
         /\ store'[id].contact_count >= 0
         /\ store'[id].contact_count >= store[id].contact_count
         /\ ClicksLanded(id) # {} => store'[id].contact_count = store[id].contact_count + 1]_vars

(***************************************************************************)
(* Properties of the confirmed changes.                                    *)
(***************************************************************************)
\* the requests of the dialogs and of the delete button
ConfirmedKinds == {"demo", "reject", "payment", "approve", "delete"}

\* the confirmed requests issued, and those that fail, in this step
ConfirmIssued == {w \in inflight' \ inflight : w.kind \in ConfirmedKinds}
ConfirmFailed == {w \in inflight \ inflight' : w.kind \in ConfirmedKinds /\ ev' = "writeFailed"}

\* the dialog of request w is open
DialogOpen(dl, w) == dl[w.t] # NoDialog /\ dl[w.t].kind = DialogKindOf(w.kind)

\* C32 (confirmed changes wait for the write): the step that issues the write of a
\* capture dialog, of the Approved dialog or of a delete leaves the store and every list
\* as they are; the step in which such a write fails leaves the store and every list as
\* they are, raises one notification and leaves the dialog of the request closed.
C32_ConfirmedAfterWrite ==
  [][/\ ConfirmIssued # {} => (contacts' = contacts /\ store' = store)
     /\ \A w \in ConfirmFailed :
          /\ contacts' = contacts
          /\ store' = store
          /\ toasts' = toasts + 1
          /\ w.ep = epoch[w.t] => ~ DialogOpen(dialog', w)]_vars

\* the one request made, that of a dialog filled in or of a delete, has failed: one
\* notification, no dialog open, every contact where it was
C32_Witness ==
  /\ ev = "writeFailed"
  /\ nCalls = 1 /\ nFail = 1 /\ callLog = <<>>
  /\ toasts = 1
  /\ draft.instructions # <<>>
  /\ \A t \in Tables : dialog[t] = NoDialog
  /\ \A id \in Ids : store[id] # Absent /\ store[id].demo_instructions = Null
  /\ contacts["P2"]["c1"] # Absent

(***************************************************************************)
(* Properties of the move to phase 2.                                      *)
(***************************************************************************)
\* every write has completed and every fetch has been delivered
Settled == inflight = {} /\ fetches = {} /\ timers = {}

\* the tables whose list shows contact id
ShownIn(id) == {t \in mounted : contacts[t][id] # Absent}

\* C33 (move to phase 2): once every write has completed and every fetch it started
\* has been delivered, a contact whose 'Demo Stage' write was accepted (it is stored in
\* phase 2) is in the list of the phase-2 table and of no other table, and a contact
\* whose write failed (it is stored in phase 1) is in the list of the phase-1 table
\* and not in that of the phase-2 table.
C33_MoveSettles ==
  Settled =>
    \A id \in Ids :
      /\ store[id].current_phase = 2 => ShownIn(id) = {"P2"}
      /\ store[id].current_phase = 1 => ("P1" \in ShownIn(id) /\ "P2" \notin ShownIn(id))

(***************************************************************************)
(* Properties of the list after a change of phase.                         *)
(***************************************************************************)
\* C34 (fetch race): once every fetch response has arrived, in whatever order, the list
\* of the table holds only contacts of the category and of the phase the table now
\* shows, none of them in an archived stage.
C34_ShowsCurrentPhase ==
  fetches = {} =>
    \A id \in Ids :
      InList("G", id) =>
        /\ contacts["G"][id].category_id = CategoryId
        /\ contacts["G"][id].current_phase = getPhaseNumber(phaseProp)
        /\ ~ isArchivedStage(contacts["G"][id].sales_stage)

(***************************************************************************)
(* Properties of the payment dialog.                                       *)
(***************************************************************************)
\* the text stands for a number greater than 0
PositiveAmount(text) ==
  LET v == ParseAmount(text)
  IN IF v = Null THEN FALSE ELSE v.whole > 0 \/ v.frac # <<>>

\* the payment dialog is confirmed in this step
PaymentConfirmed ==
  /\ dialog["G"] # NoDialog
  /\ dialog["G"].kind = "payment"
  /\ ev' = "saveRefused" \/ (ev' = "save" /\ dialog'["G"] # dialog["G"])

\* C35 (invalid payment amount): confirming the payment dialog with a text that is not a
\* number greater than 0 issues no write, leaves the store, the lists and the inputs
\* as they are and leaves the dialog open; a payment write is issued only for a number
\* greater than 0.
C35_InvalidAmountRefused ==
  [][/\ (PaymentConfirmed /\ ~ PositiveAmount(draft.amount)) =>
          /\ ev' = "saveRefused"
          /\ inflight' = inflight /\ issued' = issued
          /\ store' = store /\ contacts' = contacts
          /\ dialog' = dialog /\ draft' = draft /\ toasts' = toasts
     /\ \A w \in inflight' \ inflight : w.kind = "payment" => PositiveAmount(draft.amount)]_vars

\* the payment dialog was confirmed with a text that is no number and is still open
C35_Witness ==
  /\ ev = "saveRefused"
  /\ dialog["G"] # NoDialog
  /\ dialog["G"].kind = "payment"
  /\ draft.amount = <<"a">>
  /\ inflight = {}
  /\ store[dialog["G"].id].sales_stage # "Closed Won"

(***************************************************************************)
(* Properties of the row just added.                                       *)
(***************************************************************************)
\* the cell being edited in table t is the blank business name of the row just added,
\* and the row has no business name and no email
BlankNewRow(t) ==
  /\ editing[t] # NoEdit
  /\ "newRow" \in DOMAIN editing[t]
  /\ editing[t].field = "business_name"
  /\ Trim(editing[t].value) = <<>>
  /\ InList(t, editing[t].id)
  /\ Falsy(contacts[t][editing[t].id].business_name)
  /\ Falsy(contacts[t][editing[t].id].email)

\* the delete requests issued in this step
DeletesIssued == {w \in inflight' \ inflight : w.kind = "delete"}

\* C36 (blank new row): in the table of the lead phase, when the cell of the row just
\* added loses focus blank, with no business name and no email in the row, a delete of
\* that row is issued, and its success removes the row from the store and from the
\* list; a blur of any other cell, and Escape, issue no delete.
C36_BlankNewRowDeleted ==
  [][\A t \in mounted :
       (phaseProp = "lead" /\ editing[t] # NoEdit /\ editing'[t] = NoEdit) =>
         /\ (ev' = "blur" /\ BlankNewRow(t)) =>
              \E w \in DeletesIssued : w.t = t /\ w.id = editing[t].id
         /\ (ev' = "blur" /\ ~ BlankNewRow(t)) => DeletesIssued = {}
         /\ ev' = "escape" => DeletesIssued = {}
         /\ \A w \in Landed : w.kind = "delete" => store'[w.id] = Absent]_vars

(***************************************************************************)
(* Properties of the text of the capture dialogs.                          *)
(***************************************************************************)
\* the dialog of table G has just been opened: nothing was typed in it since
JustOpened == ev = "select" /\ dialog["G"] # NoDialog

\* C37 (dialog text belongs to its contact): a capture dialog saved right after it was
\* opened for a contact, with nothing typed in it, saves no text: the payload holds no
\* reason and no instructions left from a dialog that was cancelled or saved before.
C37_PayloadTypedForContact ==
  [][(JustOpened /\ ev' = "save") =>
       \A w \in inflight' \ inflight :
         /\ w.kind = "reject" =>
              w.patch.notes = AppendNote(dialog["G"].row.notes, "[REJECTION REASON]: ", <<>>)
         /\ w.kind = "demo" => w.patch.demo_instructions = Txt(<<>>)]_vars
====
